---- MODULE Spec2Model ----
(***************************************************************************)
(* Model of the zipBoard documentation audit: the gap canonicalizers of   *)
(* ArticleJSONStructurer and GapDetector, the priority policies of        *)
(* GapDetector and GapAnalysisEngine, the per-article structuring and the *)
(* corpus aggregation GapDetector.detect_gaps.                            *)
(*                                                                         *)
(* Python strings are TLA+ strings; TLC evaluates Len, SubSeq and \o on   *)
(* them, so substring tests, lower-casing and trimming are computed on    *)
(* the characters.                                                         *)
(***************************************************************************)
EXTENDS Integers, Sequences, FiniteSets, TLC

VARIABLES
    gap,                \* canonicalizers: the raw gap string handed in
    structurer_label,   \* result of ArticleJSONStructurer._canonicalize_gap
    detector_label,     \* result of GapDetector._canonicalize_gap
    canon_done,         \* which of the two canonicalizers have returned
    occurrences,        \* priority: the occurrence list of one canonical gap
    total_articles,     \* priority: the corpus size
    detector_priority,  \* result of GapDetector._calculate_priority ("" = not yet)
    engine_priority,    \* result of GapAnalysisEngine._calculate_priority
    prev_priority,      \* both results for the list before the last occurrence
    processed,          \* data/processed: how many documents hold DocPool[i]
    top_n,              \* the top_n handed to detect_gaps
    report,             \* rows returned by the latest detect_gaps
    prev_report,        \* rows returned by the detect_gaps before that
    runs,               \* detect_gaps calls since the corpus last changed
    raw_article,        \* structurer: the raw article handed to structure_article
    structured,         \* the record structure_article returned (<<>> = not yet)
    struct_done,        \* structure_article has returned
    article_sheet,      \* sheet1: its rows, the header row first
    gap_sheet,          \* the "Gap Analysis" worksheet: its rows
    article_row_cache,  \* SheetManager._article_row_cache: Article ID -> row
    url_row_cache,      \* SheetManager._url_row_cache: URL -> row
    prev_article_sheet, \* sheet1 as it was before the latest upsert
    last_data,          \* the record handed to the latest upsert (<<>> = none)
    upserts,            \* upsert calls made on this SheetManager
    pc,                 \* main: the statement the run is at
    run_no,             \* main: runs started so far
    env_max_articles,   \* config: the MAX_ARTICLES_PER_RUN setting this run was started with
    all_links,          \* main: the article URLs discovered by this run
    links_to_process,   \* main: all_links[:MAX_ARTICLES_PER_RUN]
    loop_idx,           \* main: idx, the index of the current loop iteration
    attempted,          \* the indices whose loop iteration this run entered
    processed_count,    \* main: articles that completed all three steps
    raw_dir,            \* data/raw: article id -> file (<<>> = no file)
    processed_dir,      \* data/processed: article id -> file (<<>> = no file)
    gap_analysis,       \* main: the report of this run's detect_gaps
    gemini_api_key,     \* config.GEMINI_API_KEY ("None" = not set)
    engine,             \* GapAnalysisEngine(...): not yet, constructed, or raised
    gemini_service,     \* what the Gemini service did during the latest run
    gap_rows,           \* GapAnalysisEngine.run: the rows of the latest run
    client_call,        \* a call of a client method: its name and arguments
    client_result       \* what that call returned, or that it raised

canon_vars == <<gap, structurer_label, detector_label, canon_done>>

prio_vars ==
    <<occurrences, total_articles, detector_priority, engine_priority, prev_priority>>

agg_vars == <<processed, top_n, report, prev_report, runs>>

struct_vars == <<raw_article, structured, struct_done>>

sheet_vars == <<article_sheet, gap_sheet, article_row_cache, url_row_cache>>

upsert_vars == <<prev_article_sheet, last_data, upserts>>

run_vars ==
    <<pc, run_no, env_max_articles, all_links, links_to_process, loop_idx, attempted, processed_count,
      raw_dir, processed_dir, gap_analysis>>

engine_vars == <<gemini_api_key, engine, gemini_service, gap_rows>>

client_vars == <<client_call, client_result>>

ext_vars == <<sheet_vars, upsert_vars, run_vars, engine_vars, client_vars>>

vars == <<canon_vars, prio_vars, agg_vars, struct_vars, ext_vars>>

(***************************************************************************)
(* Bounds of the model.                                                    *)
(***************************************************************************)
MaxGapWords == 2

MaxOccurrences == 4

MaxTotal == 11

MaxArticles == 4

MaxTextWords == 2

MaxSmallTopN == 2

MaxNegTopN == 1

MaxUpserts == 4

MaxLinks == 2

MaxRuns == 2

\* Candidate labels handed to HFClient.detect_topics
MaxLabels == 3

\* Largest max_topics / max_gaps handed to the HFClient methods
MaxTopics == 3

(***************************************************************************)
(* Python string primitives.                                               *)
(***************************************************************************)
Min(a, b) == IF a <= b THEN a ELSE b

Max(a, b) == IF a >= b THEN a ELSE b

\* k in s
Contains(k, s) ==
    \E i \in 1..(Len(s) - Len(k) + 1) : SubSeq(s, i, i + Len(k) - 1) = k

\* any(k in s for k in keys)
ContainsAny(keys, s) == \E k \in keys : Contains(k, s)

UpperCase == "ABCDEFGHIJKLMNOPQRSTUVWXYZ"

LowerCase == "abcdefghijklmnopqrstuvwxyz"

LowerOf ==
    [c \in {SubSeq(UpperCase, i, i) : i \in 1..Len(UpperCase)} |->
        LET i == CHOOSE j \in 1..Len(UpperCase) : SubSeq(UpperCase, j, j) = c
        IN  SubSeq(LowerCase, i, i)] @@ <<>>

LowerChar(c) == IF c \in DOMAIN LowerOf THEN LowerOf[c] ELSE c

RECURSIVE Lower(_)
\* s.lower()
Lower(s) ==
    IF Len(s) = 0 THEN ""
    ELSE LowerChar(SubSeq(s, 1, 1)) \o Lower(SubSeq(s, 2, Len(s)))

IsSpace(c) == c \in {" ", "\t", "\n", "\r"}

RECURSIVE LStrip(_)
LStrip(s) ==
    IF Len(s) > 0 /\ IsSpace(SubSeq(s, 1, 1))
    THEN LStrip(SubSeq(s, 2, Len(s)))
    ELSE s

RECURSIVE RStrip(_)
RStrip(s) ==
    IF Len(s) > 0 /\ IsSpace(SubSeq(s, Len(s), Len(s)))
    THEN RStrip(SubSeq(s, 1, Len(s) - 1))
    ELSE s

\* s.strip()
Strip(s) == RStrip(LStrip(s))

\* s[:n] for a string or a list, n any integer
SliceTo(s, n) ==
    IF n >= 0 THEN SubSeq(s, 1, Min(n, Len(s)))
    ELSE SubSeq(s, 1, Max(Len(s) + n, 0))

(***************************************************************************)
(* ArticleJSONStructurer._canonicalize_gap (json_structurer.py:81-100).    *)
(***************************************************************************)
S_EXAMPLES == "missing practical examples or end-to-end user workflows"

S_ERRORS == "missing guidance on error scenarios and failure handling"

S_ROLES == "missing explanation of roles, permissions, and access levels"

S_LIMITS == "missing documented limitations and usage constraints"

S_canonicalize_gap(raw) ==
    LET g == Strip(Lower(raw)) IN
    IF ContainsAny({"example", "workflow", "use case"}, g) THEN S_EXAMPLES
    ELSE IF ContainsAny({"error", "fail", "failure", "troubleshoot"}, g) THEN S_ERRORS
    ELSE IF ContainsAny({"role", "permission", "access"}, g) THEN S_ROLES
    ELSE IF ContainsAny({"limit", "constraint", "restriction", "boundary"}, g) THEN S_LIMITS
    ELSE g

(***************************************************************************)
(* GapDetector.GAP_CANONICAL_MAP and _canonicalize_gap                     *)
(* (gap_detector.py:22-34, 59-70).  The dict is scanned in insertion       *)
(* order.                                                                  *)
(***************************************************************************)
D_ACCESS == "Missing Role & Access Requirements"

D_ERRORS == "Missing Error Handling & Failure Scenarios"

D_LIMITS == "Missing Limitations & Constraints"

D_EXAMPLES == "Missing End-to-End Usage Examples"

D_GENERAL == "General Documentation Clarity Gaps"

GAP_CANONICAL_MAP ==
    << <<"access", D_ACCESS>>,     <<"permission", D_ACCESS>>,
       <<"error", D_ERRORS>>,      <<"failure", D_ERRORS>>,
       <<"limit", D_LIMITS>>,      <<"constraint", D_LIMITS>>,
       <<"example", D_EXAMPLES>>,  <<"workflow", D_EXAMPLES>> >>

RECURSIVE FirstSection(_, _, _)
\* for key, section in items: if key in g: return section
FirstSection(items, i, g) ==
    IF i > Len(items) THEN D_GENERAL
    ELSE IF Contains(items[i][1], g) THEN items[i][2]
    ELSE FirstSection(items, i + 1, g)

\* The same, were no key of the map ever found.
D_canonicalize_gap_catch_all(raw) == D_GENERAL

D_canonicalize_gap(raw) == FirstSection(GAP_CANONICAL_MAP, 1, Lower(raw))

(***************************************************************************)
(* Priority policies.  An occurrence is the dict {"category", "severity"}. *)
(* len(occurrences) / max(total, 1) >= 0.4 is decided on the rationals     *)
(* (0.4 = 2/5, 0.2 = 1/5, 0.5 = 1/2, 0.25 = 1/4): for the counts of this   *)
(* model the IEEE quotient and the rational one compare alike.             *)
(***************************************************************************)
Severities == {"Low", "Medium", "High"}

\* severities.count(sev)
SeverityCount(occ, sev) == Cardinality({i \in 1..Len(occ) : occ[i].severity = sev})

\* n / max(total, 1) >= num / den
RatioAtLeast(n, total, num, den) == n * den >= num * Max(total, 1)

D_calculate_priority_exact3(occ, total) ==
    IF RatioAtLeast(Len(occ), total, 2, 5) \/ SeverityCount(occ, "High") = 3
    THEN "High"
    ELSE IF RatioAtLeast(Len(occ), total, 1, 5) \/ SeverityCount(occ, "Medium") >= 2
    THEN "Medium"
    ELSE "Low"

D_calculate_priority_half(occ, total) ==
    IF RatioAtLeast(Len(occ), total, 1, 2) \/ SeverityCount(occ, "High") >= 3
    THEN "High"
    ELSE IF RatioAtLeast(Len(occ), total, 1, 5) \/ SeverityCount(occ, "Medium") >= 2
    THEN "Medium"
    ELSE "Low"

\* GapDetector._calculate_priority (gap_detector.py:75-89)
D_calculate_priority(occ, total) ==
    IF RatioAtLeast(Len(occ), total, 2, 5) \/ SeverityCount(occ, "High") >= 3
    THEN "High"
    ELSE IF RatioAtLeast(Len(occ), total, 1, 5) \/ SeverityCount(occ, "Medium") >= 2
    THEN "Medium"
    ELSE "Low"

\* GapAnalysisEngine._calculate_priority (gap_analysis_engine.py:49-59)
E_calculate_priority(occ, total) ==
    IF RatioAtLeast(Len(occ), total, 1, 2) \/ SeverityCount(occ, "High") >= 3
    THEN "High"
    ELSE IF RatioAtLeast(Len(occ), total, 1, 4) \/ SeverityCount(occ, "Medium") >= 2
    THEN "Medium"
    ELSE "Low"

(***************************************************************************)
(* The processed corpus.  A processed document is the JSON object of one   *)
(* article; detect_gaps reads category, gap_severity and gaps_identified    *)
(* with defaults, and skips gaps that are not strings.  The entries of the *)
(* JSON list gaps_identified are tagged values: [str |-> s] is the string  *)
(* s, [num |-> n] the number n.                                            *)
(***************************************************************************)
\* A JSON list of strings
JStrs(seq) == [i \in 1..Len(seq) |-> [str |-> seq[i]]]

CorpusDocs ==
    << [category |-> "Roles & Permissions", gap_severity |-> "Medium",
        gaps_identified |-> JStrs(<<"missing permission explanation">>)],
       [category |-> "Troubleshooting", gap_severity |-> "Medium",
        gaps_identified |-> JStrs(<<"no error troubleshooting">>)],
       [category |-> "API", gap_severity |-> "High",
        gaps_identified |-> JStrs(<<S_ROLES, S_ERRORS, S_LIMITS>>)],
       [category |-> "General", gap_severity |-> "Low",
        gaps_identified |-> <<>>],
       [gaps_identified |->
          <<[str |-> "unclear wording"], [num |-> 7], [str |-> "needs a Workflow"]>>] >>

SeverityList == <<"Low", "Medium", "High">>

\* Articles whose single raw gap is "missing permission explanation": two
\* categories, every severity.
PermissionDocs ==
    [i \in 1..(2 * Len(SeverityList)) |->
        [category |-> IF i <= Len(SeverityList) THEN "Roles & Permissions" ELSE "General",
         gap_severity |-> SeverityList[((i - 1) % Len(SeverityList)) + 1],
         gaps_identified |-> JStrs(<<"missing permission explanation">>)]]

\* Articles whose single raw gap is "no error troubleshooting": every severity.
ErrorDocs ==
    [i \in 1..Len(SeverityList) |->
        [category |-> "Troubleshooting",
         gap_severity |-> SeverityList[i],
         gaps_identified |-> JStrs(<<"no error troubleshooting">>)]]

\* An article that lists one gap twice, in two spellings.
RepeatDocs ==
    << [category |-> "API", gap_severity |-> "High",
        gaps_identified |-> JStrs(<<"missing rate limits", "Missing rate limits ">>)] >>

DocPool == CorpusDocs \o PermissionDocs \o ErrorDocs \o RepeatDocs

DocIds == 1..Len(DocPool)

CorpusIds == 1..Len(CorpusDocs)

PermissionIds == (Len(CorpusDocs) + 1)..(Len(CorpusDocs) + Len(PermissionDocs))

ErrorIds ==
    (Len(CorpusDocs) + Len(PermissionDocs) + 1)
        ..(Len(CorpusDocs) + Len(PermissionDocs) + Len(ErrorDocs))

RepeatIds == (Len(DocPool) - Len(RepeatDocs) + 1)..Len(DocPool)

\* The gap strings of the corpus and their detector labels, computed once.
PoolGaps ==
    UNION { { DocPool[d].gaps_identified[i].str :
                i \in {j \in 1..Len(DocPool[d].gaps_identified) :
                         "str" \in DOMAIN DocPool[d].gaps_identified[j]} } :
            d \in {e \in 1..Len(DocPool) : "gaps_identified" \in DOMAIN DocPool[e]} }

PoolLabels == [g \in PoolGaps |-> D_canonicalize_gap(g)] @@ <<>>

\* self._canonicalize_gap(gap) (gap_detector.py:111)
CanonicalGap(g) ==
    IF g \in DOMAIN PoolLabels THEN PoolLabels[g] ELSE D_canonicalize_gap(g)

EmptyCorpus == [d \in DocIds |-> 0]

RECURSIVE CorpusSize(_, _)
CorpusSize(corpus, d) ==
    IF d = 0 THEN 0 ELSE corpus[d] + CorpusSize(corpus, d - 1)

RECURSIVE Enumerations(_)
\* The lists self.processed_dir.glob("*.json") can yield: every order of the
\* documents present.
Enumerations(corpus) ==
    IF \A d \in DocIds : corpus[d] = 0 THEN {<<>>}
    ELSE UNION { { <<DocPool[d]>> \o rest :
                     rest \in Enumerations([corpus EXCEPT ![d] = @ - 1]) } :
                 d \in {e \in DocIds : corpus[e] > 0} }

\* dict.get(key, default)
Get(dict, key, default) == IF key \in DOMAIN dict THEN dict[key] ELSE default

\* isinstance(x, str)
IsStr(x) == "str" \in DOMAIN x

Digits == "0123456789"

RECURSIVE IntToStr(_)
\* str(n) for n >= 0
IntToStr(n) ==
    IF n < 10 THEN SubSeq(Digits, n + 1, n + 1)
    ELSE IntToStr(n \div 10) \o SubSeq(Digits, (n % 10) + 1, (n % 10) + 1)

\* f"{n:03d}"
Pad3(n) ==
    LET t == IntToStr(n) IN
    IF Len(t) >= 3 THEN t ELSE SubSeq("000", 1, 3 - Len(t)) \o t

(***************************************************************************)
(* GapDetector._build_rationale (gap_detector.py:154-192).                 *)
(***************************************************************************)
D_build_rationale(gap_desc, category, freq, total) ==
    IF Contains("Access", gap_desc) THEN
        "Users lack clarity on role boundaries and permissions, leading to "
        \o "confusion for non-admin users and increased dependency on account "
        \o "owners for basic actions."
    ELSE IF Contains("Error Handling", gap_desc) THEN
        "Without documented failure scenarios and recovery steps, users "
        \o "cannot self-diagnose issues, resulting in higher support load and "
        \o "integration drop-offs."
    ELSE IF Contains("Limitations", gap_desc) THEN
        "Missing constraints and usage boundaries can lead to incorrect "
        \o "assumptions, misconfiguration, and unexpected system behavior."
    ELSE IF Contains("Examples", gap_desc) THEN
        "The absence of end-to-end examples makes it difficult for users to "
        \o "translate features into real-world workflows, slowing onboarding "
        \o "and adoption."
    ELSE
        "This gap appears in " \o IntToStr(freq) \o " of " \o IntToStr(total)
        \o " articles, indicating a systemic "
        \o "documentation weakness impacting user self-service."

(***************************************************************************)
(* GapDetector.detect_gaps (gap_detector.py:94-149).  gap_bucket is a      *)
(* defaultdict(list): a list of <<label, occurrences>> in first-seen       *)
(* order.                                                                  *)
(***************************************************************************)
\* gap_bucket[label].append(occ)
BucketAppend(bucket, label, occ) ==
    IF \E i \in 1..Len(bucket) : bucket[i][1] = label
    THEN LET i == CHOOSE j \in 1..Len(bucket) : bucket[j][1] = label
         IN  [bucket EXCEPT ![i] = <<label, Append(@[2], occ)>>]
    ELSE Append(bucket, <<label, <<occ>>>>)

RECURSIVE ScanGaps(_, _, _, _)
\* for gap in gaps (gap_detector.py:107-116)
ScanGaps(bucket, gaps, i, occ) ==
    IF i > Len(gaps) THEN bucket
    ELSE IF ~IsStr(gaps[i]) THEN ScanGaps(bucket, gaps, i + 1, occ)
    ELSE ScanGaps(BucketAppend(bucket, CanonicalGap(gaps[i].str), occ),
                  gaps, i + 1, occ)

RECURSIVE ScanArticles(_, _, _)
\* for article in articles (gap_detector.py:102-116)
ScanArticles(bucket, articles, i) ==
    IF i > Len(articles) THEN bucket
    ELSE LET article == articles[i]
             occ == [category |-> Get(article, "category", "General"),
                     severity |-> Get(article, "gap_severity", "Low")]
         IN  ScanArticles(
                 ScanGaps(bucket, Get(article, "gaps_identified", <<>>), 1, occ),
                 articles, i + 1)

\* The same with an unstable sort: item goes ahead of its equals.
InsertByCount_ahead_of_equals(sorted, item) ==
    LET notlarger == {j \in 1..Len(sorted) : Len(sorted[j][2]) <= Len(item[2])}
        at == IF notlarger = {} THEN Len(sorted) + 1
              ELSE CHOOSE j \in notlarger : \A k \in notlarger : j <= k
    IN  SubSeq(sorted, 1, at - 1) \o <<item>> \o SubSeq(sorted, at, Len(sorted))

\* Place item behind every entry that has at least as many occurrences.
InsertByCount(sorted, item) ==
    LET smaller == {j \in 1..Len(sorted) : Len(sorted[j][2]) < Len(item[2])}
        at == IF smaller = {} THEN Len(sorted) + 1
              ELSE CHOOSE j \in smaller : \A k \in smaller : j <= k
    IN  SubSeq(sorted, 1, at - 1) \o <<item>> \o SubSeq(sorted, at, Len(sorted))

RECURSIVE SortByCount(_, _, _)
\* sorted(gap_bucket.items(), key=lambda x: len(x[1]), reverse=True): stable
SortByCount(sorted, items, i) ==
    IF i > Len(items) THEN sorted
    ELSE SortByCount(InsertByCount(sorted, items[i]), items, i + 1)

\* Counter(categories).most_common(1)[0][0]: the most frequent category,
\* the first encountered one among equals
DominantCategory(occ) ==
    LET count(c) == Cardinality({i \in 1..Len(occ) : occ[i].category = c})
        best == {i \in 1..Len(occ) :
                   \A j \in 1..Len(occ) : count(occ[j].category) <= count(occ[i].category)}
    IN  occ[CHOOSE i \in best : \A j \in best : i <= j].category

\* One row of results (gap_detector.py:126-147)
ReportRow(idx, gap_desc, occ, total) ==
    LET dominant_category == DominantCategory(occ) IN
    [ gap_id |-> "GAP-" \o Pad3(idx),
      category |-> dominant_category,
      gap_description |-> gap_desc,
      priority |-> D_calculate_priority(occ, total),
      suggested_article_title |-> gap_desc,
      rationale |-> D_build_rationale(gap_desc, dominant_category, Len(occ), total) ]

detect_gaps_off_by_one(articles, n) ==
    IF Len(articles) = 0 THEN <<>>
    ELSE LET sorted_gaps == SortByCount(<<>>, ScanArticles(<<>>, articles, 1), 1)
             kept == SliceTo(sorted_gaps, n + 1)
         IN  [idx \in 1..Len(kept) |->
                ReportRow(idx, kept[idx][1], kept[idx][2], Len(articles))]

detect_gaps(articles, n) ==
    IF Len(articles) = 0 THEN <<>>
    ELSE LET sorted_gaps == SortByCount(<<>>, ScanArticles(<<>>, articles, 1), 1)
             kept == SliceTo(sorted_gaps, n)
         IN  [idx \in 1..Len(kept) |->
                ReportRow(idx, kept[idx][1], kept[idx][2], Len(articles))]

(***************************************************************************)
(* ArticleJSONStructurer (json_structurer.py).                             *)
(***************************************************************************)
\* text = (article.get("raw_text") or "")[:3000]
TEXT_LIMIT == 3000

TOPICS ==
    << "onboarding", "roles and permissions", "collaboration", "projects",
       "integrations", "api", "troubleshooting", "billing", "security" >>

RECURSIVE DedupeFrom(_, _, _)
DedupeFrom(seq, i, acc) ==
    IF i > Len(seq) THEN acc
    ELSE IF \E j \in 1..Len(acc) : acc[j] = seq[i] THEN DedupeFrom(seq, i + 1, acc)
    ELSE DedupeFrom(seq, i + 1, Append(acc, seq[i]))

\* list(dict.fromkeys(seq))
Dedupe(seq) == DedupeFrom(seq, 1, <<>>)

RECURSIVE FilterPresent(_, _, _)
\* [k for k in keywords if k in text]
FilterPresent(keywords, i, text) ==
    IF i > Len(keywords) THEN <<>>
    ELSE (IF Contains(keywords[i], text) THEN <<keywords[i]>> ELSE <<>>)
         \o FilterPresent(keywords, i + 1, text)

RECURSIVE WordCount(_, _)
\* len(text.split()): the maximal runs of non-blank characters from position i
WordCount(text, i) ==
    IF i > Len(text) THEN 0
    ELSE (IF ~IsSpace(SubSeq(text, i, i))
             /\ (i = 1 \/ IsSpace(SubSeq(text, i - 1, i - 1)))
          THEN 1 ELSE 0) + WordCount(text, i + 1)

\* _infer_category_heuristic (json_structurer.py:183-199)
S_infer_category_heuristic(title, text) ==
    LET t == Lower(title \o " " \o text) IN
    IF Contains("api", t) THEN "API"
    ELSE IF Contains("integration", t) THEN "Integrations"
    ELSE IF ContainsAny({"role", "manager", "collaborator", "client"}, t)
    THEN "Roles & Permissions"
    ELSE IF Contains("project", t) \/ Contains("phase", t) THEN "Projects & Phases"
    ELSE IF Contains("error", t) \/ Contains("issue", t) THEN "Troubleshooting"
    ELSE IF Contains("account", t) \/ Contains("billing", t) THEN "Account & Management"
    ELSE "General"

\* The same with "Reference" as the content type of a text without keywords.
S_infer_content_type_default_reference(text) ==
    LET t == Lower(text) IN
    IF Contains("step", t) \/ Contains("follow these", t) \/ Contains("how to", t)
    THEN "How-to"
    ELSE IF Contains("faq", t) THEN "FAQ"
    ELSE IF Contains("error", t) \/ Contains("issue", t) THEN "Troubleshooting"
    ELSE "Reference"

\* _infer_content_type_heuristic (json_structurer.py:204-216)
S_infer_content_type_heuristic(text) ==
    LET t == Lower(text) IN
    IF Contains("step", t) \/ Contains("follow these", t) \/ Contains("how to", t)
    THEN "How-to"
    ELSE IF Contains("faq", t) THEN "FAQ"
    ELSE IF Contains("error", t) \/ Contains("issue", t) THEN "Troubleshooting"
    ELSE IF Contains("reference", t) THEN "Reference"
    ELSE "Guide"

\* _extract_specific_topics (json_structurer.py:168-178)
S_extract_specific_topics(text) ==
    LET keywords == << "manager", "collaborator", "client", "project",
                       "organization", "permission", "role", "api",
                       "token", "integration", "jira", "webhook",
                       "review", "task" >>
    IN  SliceTo(Dedupe(FilterPresent(keywords, 1, Lower(text))), 5)

\* _infer_topics (json_structurer.py:105-116); primary is what
\* hf.detect_topics returned
S_infer_topics(text, primary) ==
    LET topics == Dedupe(primary \o S_extract_specific_topics(text)) IN
    IF Len(topics) > 0 THEN SliceTo(topics, 5) ELSE <<"onboarding">>

RAW_ROLES == "does not clearly explain required roles, permissions, or access levels"

RAW_ERRORS == "missing guidance on error scenarios and failure handling"

RAW_LIMITS == "no documented limitations, constraints, or usage boundaries"

RAW_EXAMPLES == "lacks practical examples or end-to-end user workflows"

\* The same without the cut to max_gaps of json_structurer.py:163.
S_infer_semantic_gaps_uncapped(text, category, content_type) ==
    LET t == Lower(text)
        roles == IF category \in {"Roles & Permissions", "Integrations", "API"}
                    /\ ~ContainsAny({"role", "permission", "access"}, t)
                 THEN <<RAW_ROLES>> ELSE <<>>
        errors == IF category \in {"Integrations", "API", "Troubleshooting"}
                     /\ ~ContainsAny({"error", "fail", "issue", "troubleshoot"}, t)
                  THEN <<RAW_ERRORS>> ELSE <<>>
        limits == IF category \in {"API", "Integrations"}
                     /\ ~ContainsAny({"limit", "only", "cannot", "restriction"}, t)
                  THEN <<RAW_LIMITS>> ELSE <<>>
        examples == IF content_type \in {"How-to", "Guide"}
                       /\ ~ContainsAny({"example", "workflow", "use case"}, t)
                    THEN <<RAW_EXAMPLES>> ELSE <<>>
    IN  roles \o errors \o limits \o examples

\* _infer_semantic_gaps (json_structurer.py:121-163), max_gaps = 3
S_infer_semantic_gaps(text, category, content_type) ==
    LET t == Lower(text)
        roles == IF category \in {"Roles & Permissions", "Integrations", "API"}
                    /\ ~ContainsAny({"role", "permission", "access"}, t)
                 THEN <<RAW_ROLES>> ELSE <<>>
        errors == IF category \in {"Integrations", "API", "Troubleshooting"}
                     /\ ~ContainsAny({"error", "fail", "issue", "troubleshoot"}, t)
                  THEN <<RAW_ERRORS>> ELSE <<>>
        limits == IF category \in {"API", "Integrations"}
                     /\ ~ContainsAny({"limit", "only", "cannot", "restriction"}, t)
                  THEN <<RAW_LIMITS>> ELSE <<>>
        examples == IF content_type \in {"How-to", "Guide"}
                       /\ ~ContainsAny({"example", "workflow", "use case"}, t)
                    THEN <<RAW_EXAMPLES>> ELSE <<>>
    IN  SliceTo(roles \o errors \o limits \o examples, 3)

S_severity_above_two(gaps) ==
    IF Len(gaps) > 2 THEN "High"
    ELSE IF Len(gaps) > 0 THEN "Medium"
    ELSE "Low"

\* Severity (json_structurer.py:52-58)
S_severity(gaps) ==
    IF Len(gaps) >= 2 THEN "High"
    ELSE IF Len(gaps) > 0 THEN "Medium"
    ELSE "Low"

\* structure_article (json_structurer.py:32-76)
structure_article(a, primary) ==
    LET text == SliceTo(Get(a, "raw_text", ""), TEXT_LIMIT)
        title == Get(a, "title", "")
        category == S_infer_category_heuristic(title, text)
        content_type == S_infer_content_type_heuristic(text)
        topics == S_infer_topics(text, primary)
        raw_gaps == S_infer_semantic_gaps(text, category, content_type)
        gaps == Dedupe([i \in 1..Len(raw_gaps) |-> S_canonicalize_gap(raw_gaps[i])])
        severity == S_severity(gaps)
    IN  [ article_id |-> Get(a, "article_id", "None"),
          article_title |-> title,
          category |-> category,
          section |-> "Knowledge Base",
          url |-> Get(a, "url", "None"),
          content_type |-> content_type,
          approx_word_count |-> WordCount(text, 1),
          has_screenshots |-> Get(a, "has_images", FALSE),
          topics_covered |-> topics,
          gaps_identified |-> gaps,
          target_user_role |-> "Mixed",
          onboarding_stage |-> "First-time setup",
          gap_severity |-> severity,
          automation_opportunity |-> IF Len(gaps) > 0 THEN "Yes" ELSE "No",
          category_risk_level |-> severity ]

\* What hf.detect_topics(text, TOPICS, 0.25, 3) can return when it returns
\* (hf_client.py:37-91): nothing for an empty text or a failed call, else up
\* to 3 allowed topics.
HFTopicResults(text) ==
    IF Len(text) = 0 THEN {<<>>}
    ELSE {<<>>, <<TOPICS[6]>>, <<TOPICS[5], TOPICS[6], TOPICS[9]>>}

(***************************************************************************)
(* ZipboardArticleScraper.scrape_article (article_scraper.py).  A fetched  *)
(* page is the record of what the parser extracts from it; a failed fetch   *)
(* is the record [fetched |-> FALSE].                                       *)
(***************************************************************************)
FetchFailed == [fetched |-> FALSE]

scrape_article(url, article_id, page) ==
    IF ~page.fetched
    THEN [ article_id |-> article_id, title |-> "Unavailable Article",
           category |-> "Unknown", url |-> url, raw_text |-> "",
           has_images |-> FALSE, fetch_failed |-> TRUE ]
    ELSE [ article_id |-> article_id, title |-> page.title,
           category |-> "Unknown", url |-> url, raw_text |-> page.raw_text,
           has_images |-> page.has_images ]

(***************************************************************************)
(* SheetManager (sheet_manager.py).  A worksheet is the sequence of its     *)
(* rows, a row the sequence of its cell texts; the sheet with no row at all *)
(* is <<>>.                                                                 *)
(***************************************************************************)
ARTICLE_HEADERS ==
    << "Article ID", "Article Title", "Category", "Section", "URL",
       "Content Type", "Approx Word Count", "Has Screenshots",
       "Topics Covered", "Gaps Identified", "Target User Role",
       "Onboarding Stage", "Gap Severity", "Automation Opportunity",
       "Category Risk Level" >>

GAP_HEADERS ==
    << "Gap ID", "Category", "Gap Description", "Priority",
       "Suggested Article Title", "Rationale" >>

\* not x, for x a string or None
Falsy(x) == x = "" \/ x = "None"

RECURSIVE Join(_, _)
\* sep.join(items)
Join(sep, items) ==
    IF Len(items) = 0 THEN ""
    ELSE IF Len(items) = 1 THEN items[1]
    ELSE items[1] \o sep \o Join(sep, Tail(items))

\* row = [...] (sheet_manager.py:125-141)
ArticleRow(data) ==
    << Get(data, "article_id", "None"),
       Get(data, "article_title", "None"),
       Get(data, "category", "None"),
       Get(data, "section", "None"),
       Get(data, "url", "None"),
       Get(data, "content_type", "None"),
       IntToStr(Get(data, "approx_word_count", 0)),
       IF Get(data, "has_screenshots", FALSE) THEN "Yes" ELSE "No",
       Join(", ", Get(data, "topics_covered", <<>>)),
       Join(", ", Get(data, "gaps_identified", <<>>)),
       Get(data, "target_user_role", "None"),
       Get(data, "onboarding_stage", "None"),
       Get(data, "gap_severity", "None"),
       Get(data, "automation_opportunity", "None"),
       Get(data, "category_risk_level", "None") >>

\* _ensure_headers: the header row is appended to a sheet whose first row is
\* empty, and nothing else is touched
ensure_headers(sheet, headers) ==
    IF Len(sheet) = 0 THEN <<headers>> ELSE sheet

\* _build_article_row_cache / _build_url_row_cache: get_all_records() keys
\* every data row by the header row; the value under `name`, when truthy, is
\* cached with its row number idx + 2, a later row replacing an earlier one.
build_row_cache(sheet, name) ==
    LET header == sheet[1]
        cols == {c \in 1..Len(header) : header[c] = name}
        col == IF cols = {} THEN 0 ELSE CHOOSE c \in cols : \A d \in cols : d <= c
        rows == {r \in 2..Len(sheet) : col # 0 /\ ~Falsy(sheet[r][col])}
        keys == {sheet[r][col] : r \in rows}
    IN  [k \in keys |->
           CHOOSE r \in rows : /\ sheet[r][col] = k
                               /\ \A q \in rows : sheet[q][col] = k => q <= r]

\* SheetManager.__init__ on the spreadsheet (sheet_manager.py:66-73)
SheetManager__init__(sheet1, gap_ws) ==
    LET a == ensure_headers(sheet1, ARTICLE_HEADERS) IN
    [ article_sheet |-> a,
      gap_sheet |-> ensure_headers(gap_ws, GAP_HEADERS),
      article_row_cache |-> build_row_cache(a, "Article ID"),
      url_row_cache |-> build_row_cache(a, "URL") ]

\* The same without the lookup by Article ID (sheet_manager.py:144-147 left out).
upsert_without_id_lookup(sm, data) ==
    LET article_id == Get(data, "article_id", "None")
        url == Get(data, "url", "None")
        row == ArticleRow(data)
    IN  IF Falsy(article_id) \/ Falsy(url) THEN sm
        ELSE IF url \in DOMAIN sm.url_row_cache
        THEN LET r == sm.url_row_cache[url] IN
             [sm EXCEPT !.article_sheet[r] = row,
                        !.article_row_cache = (article_id :> r) @@ @]
        ELSE LET appended == Append(sm.article_sheet, row)
                 r == Len(appended)
             IN  [sm EXCEPT !.article_sheet = appended,
                            !.article_row_cache = (article_id :> r) @@ @,
                            !.url_row_cache = (url :> r) @@ @]

\* The same, were upsert to return without writing for every record as it does
\* for one without an id or a URL (sheet_manager.py:122-123).
upsert_returning_early(sm, data) == sm

\* SheetManager.upsert (sheet_manager.py:118-160)
upsert(sm, data) ==
    LET article_id == Get(data, "article_id", "None")
        url == Get(data, "url", "None")
        row == ArticleRow(data)
    IN  IF Falsy(article_id) \/ Falsy(url) THEN sm
        ELSE IF article_id \in DOMAIN sm.article_row_cache
        THEN [sm EXCEPT !.article_sheet[sm.article_row_cache[article_id]] = row]
        ELSE IF url \in DOMAIN sm.url_row_cache
        THEN LET r == sm.url_row_cache[url] IN
             [sm EXCEPT !.article_sheet[r] = row,
                        !.article_row_cache = (article_id :> r) @@ @]
        ELSE LET appended == Append(sm.article_sheet, row)
                 r == Len(appended)
             IN  [sm EXCEPT !.article_sheet = appended,
                            !.article_row_cache = (article_id :> r) @@ @,
                            !.url_row_cache = (url :> r) @@ @]

\* rows = [[g.get("gap_id"), ...] for g in gaps] (sheet_manager.py:187-197)
GapRow(g) ==
    << Get(g, "gap_id", "None"), Get(g, "category", "None"),
       Get(g, "gap_description", "None"), Get(g, "priority", "None"),
       Get(g, "suggested_article_title", "None"), Get(g, "rationale", "None") >>

\* SheetManager.upsert_gap_analysis (sheet_manager.py:165-200) on the rows of
\* the Gap Analysis worksheet
upsert_gap_analysis(gap_ws, gaps) ==
    IF Len(gaps) = 0 THEN gap_ws
    ELSE LET with_header ==
                 IF Len(gap_ws) = 0 \/ gap_ws[1] # GAP_HEADERS
                 THEN <<GAP_HEADERS>> ELSE gap_ws
             header_only ==
                 IF Len(with_header) > 1 THEN SubSeq(with_header, 1, 1)
                 ELSE with_header
         IN  header_only \o [i \in 1..Len(gaps) |-> GapRow(gaps[i])]

RECURSIVE Remove(_, _)
\* s.replace(sub, "")
Remove(s, sub) ==
    IF Len(s) < Len(sub) THEN s
    ELSE IF SubSeq(s, 1, Len(sub)) = sub
    THEN Remove(SubSeq(s, Len(sub) + 1, Len(s)), sub)
    ELSE SubSeq(s, 1, 1) \o Remove(SubSeq(s, 2, Len(s)), sub)

RECURSIVE Repeat(_, _)
\* s * n
Repeat(s, n) ==
    IF n <= 0 THEN ""
    ELSE IF n = 1 THEN s
    ELSE Repeat(s, n \div 2) \o Repeat(s, n - (n \div 2))

(***************************************************************************)
(* HFClient (hf_client.py).  What the inference service does with a        *)
(* request is [raises |-> TRUE] (timeout, HTTP error) or the value it       *)
(* answers: [dict |-> d] a JSON object, [list |-> l] a JSON list of such    *)
(* values, [text |-> t] anything else.  Scores are hundredths; a score that *)
(* is no number is [str |-> s].  A call of a client method ends as          *)
(* [returns |-> value] or [raises |-> exception].                           *)
(***************************************************************************)
\* detect_topics returning what the loop collected
HF_no_fallback(topics, labels) == topics

\* The hard fallback of detect_topics (hf_client.py:88-89)
HF_hard_fallback(topics, labels) ==
    IF Len(topics) = 0 /\ Len(labels) > 0 THEN <<labels[1]>> ELSE topics

\* HFClient.detect_topics (hf_client.py:37-91)
HF_detect_topics(text, allowed_topics, threshold, max_topics, service) ==
    IF text = "" \/ Len(allowed_topics) = 0 THEN [returns |-> <<>>]
    ELSE IF "raises" \in DOMAIN service THEN [returns |-> <<>>]
    ELSE
    LET result == IF "list" \in DOMAIN service
                  THEN (IF Len(service.list) > 0 THEN service.list[1]
                        ELSE [dict |-> <<>>])
                  ELSE service
    IN  IF "dict" \notin DOMAIN result THEN [raises |-> "AttributeError"]
        ELSE
        LET labels == Get(result.dict, "labels", <<>>)
            scores == Get(result.dict, "scores", <<>>)
            pairs == Min(Len(labels), Len(scores))
            RECURSIVE Loop(_, _)
            \* for label, score in zip(labels, scores)
            Loop(topics, i) ==
                IF i > pairs THEN [returns |-> topics]
                ELSE IF "num" \notin DOMAIN scores[i] THEN [raises |-> "TypeError"]
                ELSE LET added ==
                             IF /\ scores[i].num >= threshold
                                /\ \A j \in 1..Len(topics) : topics[j] # labels[i]
                             THEN Append(topics, labels[i]) ELSE topics
                     IN  IF Len(added) = max_topics THEN [returns |-> added]
                         ELSE Loop(added, i + 1)
            looped == Loop(<<>>, 1)
        IN  IF "raises" \in DOMAIN looped THEN looped
            ELSE [returns |-> HF_hard_fallback(looped.returns, labels)]

\* HFClient.detect_gaps (hf_client.py:96-146); services[i] is what the
\* service does with the request for questions[i]
HF_detect_gaps(text, questions, score_threshold, max_gaps, services) ==
    IF text = "" \/ Len(questions) = 0 THEN [returns |-> <<>>]
    ELSE
    LET RECURSIVE Loop(_, _)
        Loop(gaps, i) ==
            IF i > Len(questions) THEN [returns |-> gaps]
            ELSE IF "raises" \in DOMAIN services[i] THEN Loop(gaps, i + 1)
            ELSE IF "dict" \notin DOMAIN services[i] THEN [raises |-> "AttributeError"]
            ELSE LET score == Get(services[i].dict, "score", [num |-> 0]) IN
                 IF "num" \notin DOMAIN score THEN [raises |-> "ValueError"]
                 ELSE LET added ==
                              IF score.num < score_threshold
                              THEN Append(gaps,
                                     Lower(Strip(Remove(
                                        Remove(questions[i], "Does this article"), "?"))))
                              ELSE gaps
                      IN  IF Len(added) = max_gaps THEN [returns |-> added]
                          ELSE Loop(added, i + 1)
    IN  Loop(<<>>, 1)

\* GeminiClient._run (gemini_client.py:210-218)
G_run(service) ==
    IF "raises" \in DOMAIN service THEN ""
    ELSE IF Falsy(service.text) THEN "" ELSE service.text

(***************************************************************************)
(* GeminiClient.analyze_article (gemini_client.py).  The response texts     *)
(* below are given with what the two regular expressions and json.loads     *)
(* make of them: the text without its fenced blocks, the object decoded     *)
(* from its first-{ to last-} span ([no_match |-> TRUE] without such a      *)
(* span, [invalid |-> TRUE] when json.loads raises).  A JSON list is        *)
(* [list |-> l], null is [null |-> TRUE].                                   *)
(***************************************************************************)
REPLY_EMPTY ==
    ""

REPLY_VALID ==
    "{\"category\": \"API\", \"topics_covered\": [\"API\", \"security\", \"pricing\"], \"content_type\": \"Guide\", \"gaps_identified\": [\"No rate limits documented\", \"  \", 7, \"Token rotation is not explained\"]}"

REPLY_NO_GAPS ==
    "Here is the review: {\"category\": \"Security\", \"topics_covered\": [\"security\"], \"content_type\": \"Reference\", \"gaps_identified\": []}"

REPLY_FOUR_GAPS ==
    "{\"category\": \"Billing\", \"content_type\": \"FAQ\", \"gaps_identified\": [\"No prerequisites\", \"No limits\", \"No recovery steps\", \"No examples\"]}"

REPLY_NULL_GAPS ==
    "{\"category\": \"API\", \"topics_covered\": [], \"content_type\": \"Guide\", \"gaps_identified\": null}"

REPLY_NUM_TOPIC ==
    "{\"category\": \"API\", \"topics_covered\": [1], \"content_type\": \"Guide\", \"gaps_identified\": [\"No rate limits documented\"]}"

REPLY_INVALID ==
    "{category: API}"

REPLY_PROSE ==
    "I cannot access the article; only a failed example was given."

REPLY_EMPTY_OBJECT ==
    "{}"

\* re.sub, re.search and json.loads of gemini_client.py:132-137 on each
\* response text
ResponseParse ==
    (REPLY_EMPTY :>
        [ cleaned |-> REPLY_EMPTY,
          data |-> [no_match |-> TRUE] ])
    @@
    (REPLY_VALID :>
        [ cleaned |-> REPLY_VALID,
          data |-> [object |-> [ category |-> "API",
             topics_covered |-> [list |-> <<[str |-> "API"], [str |-> "security"], [str |-> "pricing"]>>],
             content_type |-> "Guide",
             gaps_identified |-> [list |-> <<[str |-> "No rate limits documented"], [str |-> "  "], [num |-> 7], [str |-> "Token rotation is not explained"]>>] ] ] ])
    @@
    (REPLY_NO_GAPS :>
        [ cleaned |-> REPLY_NO_GAPS,
          data |-> [object |-> [ category |-> "Security",
             topics_covered |-> [list |-> <<[str |-> "security"]>>],
             content_type |-> "Reference",
             gaps_identified |-> [list |-> <<>>] ] ] ])
    @@
    (REPLY_FOUR_GAPS :>
        [ cleaned |-> REPLY_FOUR_GAPS,
          data |-> [object |-> [ category |-> "Billing",
             content_type |-> "FAQ",
             gaps_identified |-> [list |-> <<[str |-> "No prerequisites"], [str |-> "No limits"], [str |-> "No recovery steps"], [str |-> "No examples"]>>] ] ] ])
    @@
    (REPLY_NULL_GAPS :>
        [ cleaned |-> REPLY_NULL_GAPS,
          data |-> [object |-> [ category |-> "API",
             topics_covered |-> [list |-> <<>>],
             content_type |-> "Guide",
             gaps_identified |-> [null |-> TRUE] ] ] ])
    @@
    (REPLY_NUM_TOPIC :>
        [ cleaned |-> REPLY_NUM_TOPIC,
          data |-> [object |-> [ category |-> "API",
             topics_covered |-> [list |-> <<[num |-> 1]>>],
             content_type |-> "Guide",
             gaps_identified |-> [list |-> <<[str |-> "No rate limits documented"]>>] ] ] ])
    @@
    (REPLY_INVALID :>
        [ cleaned |-> REPLY_INVALID,
          data |-> [invalid |-> TRUE] ])
    @@
    (REPLY_PROSE :>
        [ cleaned |-> REPLY_PROSE,
          data |-> [no_match |-> TRUE] ])
    @@
    (REPLY_EMPTY_OBJECT :>
        [ cleaned |-> REPLY_EMPTY_OBJECT,
          data |-> [object |-> <<>>] ])

\* GeminiClient._semantic_gap_fallback
G_semantic_gap_fallback(text, max_gaps) ==
    LET t == Lower(text)
        gap_if_none(keys, g) == IF ContainsAny(keys, t) THEN <<>> ELSE <<g>>
    IN  SliceTo(
            gap_if_none({"require", "permission", "role", "access"},
                "Prerequisites or access requirements are not clearly defined")
            \o gap_if_none({"limit", "only", "cannot", "restriction"},
                "Limitations or constraints are not documented")
            \o gap_if_none({"error", "fail", "issue", "problem"},
                "Error handling or failure scenarios are not covered")
            \o gap_if_none({"example", "use case", "scenario"},
                "Lacks practical usage examples"),
            max_gaps)

\* GeminiClient._fallback
G_fallback(text) ==
    [ category |-> "General", topics_covered |-> <<>>, content_type |-> "How-to",
      gaps_identified |-> G_semantic_gap_fallback(text, 3) ]

G_allowed_categories ==
    { "Getting Started", "Roles & Permissions", "Collaboration",
      "Projects & Phases", "Integrations", "API", "Troubleshooting",
      "Account & Management", "Security", "General" }

G_allowed_topics == TOPICS

G_allowed_content_types == {"How-to", "Guide", "FAQ", "Reference", "Troubleshooting"}

\* GeminiClient._safe_parse (gemini_client.py:130-169)
G_safe_parse(text) ==
    LET parse == ResponseParse[text] IN
    IF "no_match" \in DOMAIN parse.data THEN [returns |-> G_fallback(parse.cleaned)]
    ELSE IF "invalid" \in DOMAIN parse.data THEN [returns |-> G_fallback(text)]
    ELSE
    LET data == parse.data.object
        category == Get(data, "category", "None")
        content_type == Get(data, "content_type", "None")
        listed == Get(data, "topics_covered", [list |-> <<>>])
        found == Get(data, "gaps_identified", [list |-> <<>>])
        RECURSIVE Topics(_, _)
        \* for t in data.get("topics_covered", [])
        Topics(topics, i) ==
            IF i > Len(listed.list) THEN [returns |-> topics]
            ELSE IF ~IsStr(listed.list[i]) THEN [raises |-> "AttributeError"]
            ELSE LET t == Lower(listed.list[i].str)
                     added ==
                         IF /\ \E j \in 1..Len(G_allowed_topics) : G_allowed_topics[j] = t
                            /\ \A j \in 1..Len(topics) : topics[j] # t
                         THEN Append(topics, t) ELSE topics
                 IN  IF Len(added) = 5 THEN [returns |-> added]
                     ELSE Topics(added, i + 1)
        RECURSIVE Gaps(_, _)
        \* for g in data.get("gaps_identified", [])
        Gaps(gaps, i) ==
            IF i > Len(found.list) THEN gaps
            ELSE LET g == found.list[i]
                     added == IF IsStr(g) /\ Strip(g.str) # ""
                              THEN Append(gaps, Strip(g.str)) ELSE gaps
                 IN  IF Len(added) = 3 THEN added ELSE Gaps(added, i + 1)
    IN  IF "null" \in DOMAIN listed THEN [raises |-> "TypeError"]
        ELSE IF "raises" \in DOMAIN Topics(<<>>, 1) THEN Topics(<<>>, 1)
        ELSE IF "null" \in DOMAIN found THEN [raises |-> "TypeError"]
        ELSE [returns |->
                [ category |-> IF category \in G_allowed_categories THEN category
                               ELSE "General",
                  topics_covered |-> Topics(<<>>, 1).returns,
                  content_type |-> IF content_type \in G_allowed_content_types
                                   THEN content_type ELSE "How-to",
                  gaps_identified |-> Gaps(<<>>, 1) ]]

\* GeminiClient.analyze_article (gemini_client.py:67-125); `service` is what
\* the Gemini service does with the request
G_analyze_article(article_text, service) ==
    IF article_text = "" THEN [returns |-> G_fallback(article_text)]
    ELSE LET parsed == G_safe_parse(G_run(service)) IN
         IF "raises" \in DOMAIN parsed THEN parsed
         ELSE IF Len(parsed.returns.gaps_identified) = 0
         THEN [returns |-> [parsed.returns EXCEPT !.gaps_identified =
                               G_semantic_gap_fallback(article_text, 3)]]
         ELSE parsed

(***************************************************************************)
(* GapAnalysisEngine and the Gemini call it makes (gap_analysis_engine.py, *)
(* gemini_client.py).  What the Gemini service does with a request is the  *)
(* record [raises |-> TRUE] or [text |-> t], t the response text ("None"   *)
(* for a response without text).                                           *)
(***************************************************************************)
\* GEMINI_API_KEY = _optional_env("GEMINI_API_KEY") (config.py:55);
\* GeminiClient.__init__ (gemini_client.py:22-26)
GeminiClient__init__(api_key) ==
    IF Falsy(api_key) THEN "ValueError" ELSE "constructed"

\* GapAnalysisEngine.__init__ (gap_analysis_engine.py:22-25): the exception
\* of GeminiClient() is not caught
GapAnalysisEngine__init__(api_key) == GeminiClient__init__(api_key)

\* GapAnalysisEngine._baseline_rationale
E_baseline_rationale(category, gap_desc) ==
    IF category = "API"
    THEN "Users need clear API documentation to build and maintain custom integrations."
    ELSE IF category = "Integrations"
    THEN "Users lack clarity during integration setup, increasing failures and support dependency."
    ELSE IF category = "Roles & Permissions"
    THEN "Users cannot clearly understand access boundaries, causing confusion for non-admin users."
    ELSE IF category = "Troubleshooting"
    THEN "Without failure scenarios, users cannot self-diagnose issues effectively."
    ELSE "Users lack critical guidance, reducing successful onboarding and self-service."

\* The same without the length test of gap_analysis_engine.py:118-119.
E_generate_rationale_any_length(category, gap_desc, priority, result) ==
    IF "raises" \in DOMAIN result \/ ~IsStr(result) THEN
        E_baseline_rationale(category, gap_desc)
    ELSE IF result.str = "" THEN E_baseline_rationale(category, gap_desc)
    ELSE Strip(result.str)

\* GapAnalysisEngine._generate_rationale; `result` is what self.gemini._run
\* does: [str |-> s] returns the string s, [num |-> n] returns a number,
\* [raises |-> TRUE] raises.
E_generate_rationale(category, gap_desc, priority, result) ==
    IF "raises" \in DOMAIN result \/ ~IsStr(result) THEN
        E_baseline_rationale(category, gap_desc)
    ELSE IF result.str = "" THEN E_baseline_rationale(category, gap_desc)
    ELSE LET cleaned == Strip(result.str) IN
         IF Len(cleaned) < 15 \/ Len(cleaned) > 160
         THEN E_baseline_rationale(category, gap_desc)
         ELSE cleaned

\* GapAnalysisEngine._suggest_title: f"Guide: {clean.capitalize()}" with
\* clean = gap.replace("missing", "").strip()
E_suggest_title(gap_desc) ==
    LET clean == Strip(Remove(gap_desc, "missing"))
        first == SubSeq(clean, 1, 1)
        upper == {i \in 1..Len(LowerCase) : SubSeq(LowerCase, i, i) = first}
    IN  "Guide: "
          \o (IF upper = {} THEN first
              ELSE LET i == CHOOSE j \in upper : TRUE IN SubSeq(UpperCase, i, i))
          \o Lower(SubSeq(clean, 2, Len(clean)))

\* GapAnalysisEngine.run (gap_analysis_engine.py:129-219): the rows it hands
\* to upsert_gap_analysis, <<>> when it returns before writing.  `service` is
\* what the Gemini service does with the requests of this run.
E_run(articles, n, service) ==
    LET RECURSIVE Collect(_, _, _)
        Collect(gap_map, a, i) ==
            LET article == articles[a]
                gaps == Get(article, "gaps_identified", <<>>)
                occ == [category |-> Get(article, "category", "General"),
                        severity |-> Get(article, "gap_severity", "Low")]
            IN  IF a > Len(articles) THEN gap_map
                ELSE IF i > Len(gaps) THEN Collect(gap_map, a + 1, 1)
                ELSE IF ~IsStr(gaps[i]) THEN Collect(gap_map, a, i + 1)
                ELSE LET normalized == Lower(Strip(gaps[i].str)) IN
                     IF normalized = "" THEN Collect(gap_map, a, i + 1)
                     ELSE Collect(BucketAppend(gap_map, normalized, occ), a, i + 1)
        systemic_gaps ==
            SelectSeq(Collect(<<>>, 1, 1), LAMBDA b : Len(b[2]) >= 2)
        kept == SliceTo(SortByCount(<<>>, systemic_gaps, 1), n)
    IN  [k \in 1..Len(kept) |->
           LET dominant_category == DominantCategory(kept[k][2])
               priority == E_calculate_priority(kept[k][2], Len(articles))
           IN  [ gap_id |-> "GAP-" \o Pad3(k),
                 category |-> dominant_category,
                 gap_description |-> kept[k][1],
                 priority |-> priority,
                 suggested_article_title |-> E_suggest_title(kept[k][1]),
                 rationale |-> E_generate_rationale(dominant_category, kept[k][1],
                                                    priority, [str |-> G_run(service)]) ]]

(***************************************************************************)
(* The orchestrator main() (main.py).                                      *)
(***************************************************************************)
\* article_id = f"KB-{idx:03d}" (main.py:77)
ArticleId(i) == "KB-" \o Pad3(i)

\* The i-th URL of the sorted list get_all_article_links returns
ArticleUrl(i) == "https://help.zipboard.co/article/" \o IntToStr(i)

RunIds == {ArticleId(i) : i \in 1..MaxLinks}

\* A file that open(path, "w") has truncated and json.dump has not finished
PartialFile == [partial |-> TRUE]

\* json.load of a file succeeds and yields a dict
IsDocument(file) == "article_id" \in DOMAIN file

\* json.load(f) of a document json.dump wrote: the same dict, its gaps a JSON
\* list of strings
json_load(file) == [file EXCEPT !.gaps_identified = JStrs(@)]

\* The same, were the scan to stop after the first file.
Orders_of_one_file(ids) ==
    IF ids = {} THEN {<<>>} ELSE { <<id>> : id \in ids }

RECURSIVE Orders(_)
\* The orders in which processed_dir.glob("*.json") can yield the files `ids`
Orders(ids) ==
    IF ids = {} THEN {<<>>}
    ELSE UNION { { <<id>> \o rest : rest \in Orders(ids \ {id}) } : id \in ids }

\* Where the run goes when the iteration of article i raises, were the
\* exception not caught: main() ends.
on_article_exception_uncaught(i, n) == "crashed"

\* except Exception (main.py:108-110): the failure is printed and the loop
\* goes on with the next article, or leaves the loop after the last one
on_article_exception(i, n) == IF i < n THEN "scrape" ELSE "aggregate"

(***************************************************************************)
(* Each specification below exercises one part of the program and leaves   *)
(* the variables of the other parts at rest.                               *)
(***************************************************************************)
CanonIdle ==
    /\ gap = ""
    /\ structurer_label = ""
    /\ detector_label = ""
    /\ canon_done = {}

NoPriority == [detector |-> "", engine |-> ""]

PrioIdle ==
    /\ occurrences = <<>>
    /\ total_articles = 0
    /\ detector_priority = ""
    /\ engine_priority = ""
    /\ prev_priority = NoPriority

\* def detect_gaps(self, top_n: int = 5) (gap_detector.py:94)
DEFAULT_TOP_N == 5

\* The top_n values tried: negative, zero, small, and the default.
TopNs == ((0 - MaxNegTopN)..MaxSmallTopN) \cup {DEFAULT_TOP_N}

AggIdle ==
    /\ processed = EmptyCorpus
    /\ top_n = 0
    /\ report = <<>>
    /\ prev_report = <<>>
    /\ runs = 0

StructIdle ==
    /\ raw_article = <<>>
    /\ structured = <<>>
    /\ struct_done = FALSE

SheetIdle ==
    /\ article_sheet = <<>>
    /\ gap_sheet = <<>>
    /\ article_row_cache = <<>>
    /\ url_row_cache = <<>>

UpsertIdle ==
    /\ prev_article_sheet = <<>>
    /\ last_data = <<>>
    /\ upserts = 0

RunIdle ==
    /\ pc = "idle"
    /\ run_no = 0
    /\ env_max_articles = [null |-> TRUE]
    /\ all_links = <<>>
    /\ links_to_process = <<>>
    /\ loop_idx = 0
    /\ attempted = <<>>
    /\ processed_count = 0
    /\ raw_dir = <<>>
    /\ processed_dir = <<>>
    /\ gap_analysis = <<>>

EngineIdle ==
    /\ gemini_api_key = "None"
    /\ engine = "not constructed"
    /\ gemini_service = <<>>
    /\ gap_rows = <<>>

ClientIdle ==
    /\ client_call = <<>>
    /\ client_result = <<>>

ExtIdle ==
    /\ SheetIdle
    /\ UpsertIdle
    /\ RunIdle
    /\ EngineIdle
    /\ ClientIdle

(***************************************************************************)
(* Canonicalizer inputs: raw gap strings made of at most MaxGapWords       *)
(* pieces.                                                                 *)
(***************************************************************************)
GapVocab ==
    { "access", "Permission", "role", "ERROR", "fail", "failure",
      "troubleshoot", "limit", "constraint", "restriction", "boundary",
      "example", "workflow", "use case", " ", "docs" }

RECURSIVE Phrases(_, _)
Phrases(vocab, n) ==
    IF n = 0 THEN {""}
    ELSE LET shorter == Phrases(vocab, n - 1)
         IN  shorter \cup { p \o w : p \in shorter, w \in vocab }

GapInputs == Phrases(GapVocab, MaxGapWords)

CanonInit ==
    /\ gap \in GapInputs
    /\ structurer_label = ""
    /\ detector_label = ""
    /\ canon_done = {}
    /\ PrioIdle
    /\ AggIdle
    /\ StructIdle
    /\ ExtIdle

StructurerCanonicalize ==
    /\ "structurer" \notin canon_done
    /\ structurer_label' = S_canonicalize_gap(gap)
    /\ canon_done' = canon_done \cup {"structurer"}
    /\ UNCHANGED <<gap, detector_label, prio_vars, agg_vars, struct_vars, ext_vars>>

DetectorCanonicalize ==
    /\ "detector" \notin canon_done
    /\ detector_label' = D_canonicalize_gap(gap)
    /\ canon_done' = canon_done \cup {"detector"}
    /\ UNCHANGED <<gap, structurer_label, prio_vars, agg_vars, struct_vars, ext_vars>>

CanonNext == StructurerCanonicalize \/ DetectorCanonicalize

SpecCanon == CanonInit /\ [][CanonNext]_vars

(***************************************************************************)
(* The two priority policies applied to a growing occurrence list.         *)
(***************************************************************************)
PrioInit ==
    /\ occurrences = <<>>
    /\ total_articles \in 0..MaxTotal
    /\ detector_priority = ""
    /\ engine_priority = ""
    /\ prev_priority = NoPriority
    /\ CanonIdle
    /\ AggIdle
    /\ StructIdle
    /\ ExtIdle

DetectorCalculatePriority ==
    /\ detector_priority = ""
    /\ detector_priority' = D_calculate_priority(occurrences, total_articles)
    /\ UNCHANGED <<occurrences, total_articles, engine_priority, prev_priority, canon_vars, agg_vars, struct_vars, ext_vars>>

EngineCalculatePriority ==
    /\ engine_priority = ""
    /\ engine_priority' = E_calculate_priority(occurrences, total_articles)
    /\ UNCHANGED <<occurrences, total_articles, detector_priority, prev_priority, canon_vars, agg_vars, struct_vars, ext_vars>>

\* One more occurrence joins the bucket (gap_detector.py:113-116); the
\* priorities of the shorter list are kept for comparison.
AddOccurrence(o) ==
    /\ detector_priority # ""
    /\ engine_priority # ""
    /\ Len(occurrences) < MaxOccurrences
    /\ occurrences' = Append(occurrences, o)
    /\ prev_priority' = [detector |-> detector_priority, engine |-> engine_priority]
    /\ detector_priority' = ""
    /\ engine_priority' = ""
    /\ UNCHANGED <<total_articles, canon_vars, agg_vars, struct_vars, ext_vars>>

PrioNext ==
    \/ DetectorCalculatePriority
    \/ EngineCalculatePriority
    \/ \E sev \in Severities : AddOccurrence([category |-> "General", severity |-> sev])

SpecPriority == PrioInit /\ [][PrioNext]_vars

(***************************************************************************)
(* Aggregation over the processed directory.                               *)
(***************************************************************************)
Init ==
    /\ processed = EmptyCorpus
    /\ top_n \in TopNs
    /\ report = <<>>
    /\ prev_report = <<>>
    /\ runs = 0
    /\ CanonIdle
    /\ PrioIdle
    /\ StructIdle
    /\ ExtIdle

\* save_json(PROCESSED_DIR / f"{article_id}.json", ...) of one more article
\* (main.py:94)
SaveProcessed(d) ==
    /\ CorpusSize(processed, Len(DocPool)) < MaxArticles
    /\ processed' = [processed EXCEPT ![d] = @ + 1]
    /\ report' = <<>>
    /\ prev_report' = <<>>
    /\ runs' = 0
    /\ UNCHANGED <<top_n, canon_vars, prio_vars, struct_vars, ext_vars>>

\* gap_detector.detect_gaps(top_n) (main.py:120-121)
DetectGaps ==
    /\ runs < 2
    /\ \E articles \in Enumerations(processed) :
          report' = detect_gaps(articles, top_n)
    /\ prev_report' = report
    /\ runs' = runs + 1
    /\ UNCHANGED <<processed, top_n, canon_vars, prio_vars, struct_vars, ext_vars>>

Next ==
    \/ \E d \in CorpusIds : SaveProcessed(d)
    \/ DetectGaps

Spec == Init /\ [][Next]_vars

(***************************************************************************)
(* The end-to-end scenario: a processed directory of 5 articles, 3 with    *)
(* the raw gap "missing permission explanation" and 2 with "no error       *)
(* troubleshooting", of any category and severity, aggregated with         *)
(* top_n = 5.                                                              *)
(***************************************************************************)
RECURSIVE CountOver(_, _)
CountOver(corpus, ids) ==
    IF ids = {} THEN 0
    ELSE LET d == CHOOSE e \in ids : TRUE
         IN  corpus[d] + CountOver(corpus, ids \ {d})

ScenarioCorpora ==
    { [d \in DocIds |-> IF d \in PermissionIds THEN p[d]
                        ELSE IF d \in ErrorIds THEN e[d] ELSE 0] :
      p \in {q \in [PermissionIds -> 0..3] : CountOver(q, PermissionIds) = 3},
      e \in {q \in [ErrorIds -> 0..2] : CountOver(q, ErrorIds) = 2} }

ScenarioInit ==
    /\ processed \in ScenarioCorpora
    /\ top_n = DEFAULT_TOP_N
    /\ report = <<>>
    /\ prev_report = <<>>
    /\ runs = 0
    /\ CanonIdle
    /\ PrioIdle
    /\ StructIdle
    /\ ExtIdle

ScenarioNext == DetectGaps

SpecScenario == ScenarioInit /\ [][ScenarioNext]_vars

(***************************************************************************)
(* structure_article applied to one scraped article.                       *)
(***************************************************************************)
TextVocab ==
    { "api ", "integration ", "manager ", "project ", "error ", "billing ",
      "step ", "faq ", "reference ", "example ", "access ", "limit ",
      "Only ", "troubleshoot ", "intro " }

Titles == {"", "Manage Roles"}

\* The record scrape_article returns (article_scraper.py:79-100)
ArticleInputs ==
    { [article_id |-> "KB-001", title |-> ti, url |-> "https://help.zipboard.co/article/1",
       raw_text |-> tx, has_images |-> TRUE] :
      ti \in Titles, tx \in Phrases(TextVocab, MaxTextWords) }

StructInit ==
    /\ raw_article \in ArticleInputs
    /\ structured = <<>>
    /\ struct_done = FALSE
    /\ CanonIdle
    /\ PrioIdle
    /\ AggIdle
    /\ ExtIdle

\* structured_article = structurer.structure_article(raw_article) (main.py:93)
StructureArticle ==
    /\ ~struct_done
    /\ \E primary \in HFTopicResults(SliceTo(raw_article.raw_text, TEXT_LIMIT)) :
          structured' = structure_article(raw_article, primary)
    /\ struct_done' = TRUE
    /\ UNCHANGED <<raw_article, canon_vars, prio_vars, agg_vars, ext_vars>>

StructNext == StructureArticle

SpecStructure == StructInit /\ [][StructNext]_vars

(***************************************************************************)
(* SheetManager.upsert applied, at most MaxUpserts times, to an article     *)
(* sheet that already holds zero, one or two articles.                      *)
(***************************************************************************)
\* Pages as the scraper parses them: one that documents everything, one that
\* leaves gaps.
Pages ==
    { [ fetched |-> TRUE, title |-> "Release Notes", has_images |-> FALSE,
        raw_text |-> "Only a manager role can see the error example." ],
      [ fetched |-> TRUE, title |-> "API tokens", has_images |-> TRUE,
        raw_text |-> "Create an api token." ] }

SheetIds == {"KB-001", "KB-002"}

SheetUrls ==
    { "https://help.zipboard.co/article/1-roles",
      "https://help.zipboard.co/article/2-tokens" }

\* Records handed to upsert: structured articles, and records without an id
\* or without a URL.
UpsertInputs ==
    { structure_article(scrape_article(u, id, page), <<>>) :
        id \in SheetIds \cup {""}, u \in SheetUrls \cup {""}, page \in Pages }

\* Article sheets found at start-up: no row at all, or the header followed by
\* rows of distinct articles.
InitialSheets ==
    LET row(id, u) ==
            ArticleRow(structure_article(
                scrape_article(u, id, CHOOSE p \in Pages : p.has_images), <<>>))
        first == row("KB-001", "https://help.zipboard.co/article/1-roles")
        second == row("KB-002", "https://help.zipboard.co/article/2-tokens")
    IN  { <<>>, <<ARTICLE_HEADERS>>, <<ARTICLE_HEADERS, first>>,
          <<ARTICLE_HEADERS, first, second>> }

SheetInit ==
    /\ \E sheet1 \in InitialSheets :
          LET sm == SheetManager__init__(sheet1, <<>>) IN
          /\ article_sheet = sm.article_sheet
          /\ gap_sheet = sm.gap_sheet
          /\ article_row_cache = sm.article_row_cache
          /\ url_row_cache = sm.url_row_cache
          /\ prev_article_sheet = sm.article_sheet
    /\ last_data = <<>>
    /\ upserts = 0
    /\ CanonIdle
    /\ PrioIdle
    /\ AggIdle
    /\ StructIdle
    /\ RunIdle
    /\ EngineIdle
    /\ ClientIdle

\* The SheetManager as one record
TheSheetManager ==
    [ article_sheet |-> article_sheet, gap_sheet |-> gap_sheet,
      article_row_cache |-> article_row_cache, url_row_cache |-> url_row_cache ]

\* sheet_manager.upsert(structured_article) (main.py:100)
Upsert(data) ==
    /\ upserts < MaxUpserts
    /\ LET sm == upsert(TheSheetManager, data) IN
       /\ article_sheet' = sm.article_sheet
       /\ article_row_cache' = sm.article_row_cache
       /\ url_row_cache' = sm.url_row_cache
    /\ prev_article_sheet' = article_sheet
    /\ last_data' = data
    /\ upserts' = upserts + 1
    /\ UNCHANGED <<engine_vars, client_vars, gap_sheet, canon_vars, prio_vars, agg_vars, struct_vars, run_vars>>

\* A later run constructs a new SheetManager on the same spreadsheet
\* (main.py:51)
Reconnect ==
    /\ last_data # <<>>
    /\ LET sm == SheetManager__init__(article_sheet, gap_sheet) IN
       /\ article_sheet' = sm.article_sheet
       /\ gap_sheet' = sm.gap_sheet
       /\ article_row_cache' = sm.article_row_cache
       /\ url_row_cache' = sm.url_row_cache
    /\ prev_article_sheet' = article_sheet
    /\ last_data' = <<>>
    /\ UNCHANGED <<engine_vars, client_vars, upserts, canon_vars, prio_vars, agg_vars, struct_vars, run_vars>>

SheetNext ==
    \/ \E data \in UpsertInputs : Upsert(data)
    \/ Reconnect

SpecSheet == SheetInit /\ [][SheetNext]_vars

(***************************************************************************)
(* Runs of main(): discovery, the per-article loop, the aggregation.  The   *)
(* spreadsheet and the data directories outlive a run; SpecFirstRun is the  *)
(* first run on an empty store, SpecRun allows MaxRuns runs in a row.       *)
(***************************************************************************)
\* The statements of one loop iteration (main.py:81-106); save_json is
\* open(path, "w") followed by json.dump.
ArticlePcs ==
    { "scrape", "open_raw", "dump_raw", "structure", "open_processed",
      "dump_processed", "sync" }

\* What a fetch yields in a run: a page that documents everything, or nothing
RunPages == {p \in Pages : ~p.has_images} \cup {FetchFailed}

\* What a fetch yields in the first run: either page, or nothing
FirstRunPages == Pages \cup {FetchFailed}

\* int(s) of a string (config.py:38): surrounding whitespace, one sign, digits
\* with single underscores between them; anything else raises ValueError.
py_int(s) ==
    LET t == Strip(s)
        signed == Len(t) > 0 /\ SubSeq(t, 1, 1) \in {"-", "+"}
        body == IF signed THEN SubSeq(t, 2, Len(t)) ELSE t
        IsDigit(c) == \E d \in 1..Len(Digits) : SubSeq(Digits, d, d) = c
        Value(c) == (CHOOSE d \in 1..Len(Digits) : SubSeq(Digits, d, d) = c) - 1
        At(i) == SubSeq(body, i, i)
        wellformed ==
            /\ Len(body) > 0
            /\ IsDigit(At(1))
            /\ IsDigit(At(Len(body)))
            /\ \A i \in 1..Len(body) : IsDigit(At(i)) \/ At(i) = "_"
            /\ \A i \in 1..(Len(body) - 1) : ~(At(i) = "_" /\ At(i + 1) = "_")
        digits == SelectSeq([i \in 1..Len(body) |-> At(i)], IsDigit)
        Number[i \in 0..Len(digits)] ==
            IF i = 0 THEN 0 ELSE 10 * Number[i - 1] + Value(digits[i])
    IN  IF ~wellformed THEN [raises |-> "ValueError"]
        ELSE [returns |-> IF signed /\ SubSeq(t, 1, 1) = "-"
                          THEN 0 - Number[Len(digits)] ELSE Number[Len(digits)]]

\* _get_int_env(key, default) (config.py:32-40); setting is what the
\* environment holds for key: [null |-> TRUE] when it is unset, so that
\* os.getenv(key, default) hands the integer default to int().
get_int_env(setting, default) ==
    IF "null" \in DOMAIN setting THEN default
    ELSE LET parsed == py_int(setting.str)
         IN  IF "raises" \in DOMAIN parsed THEN default ELSE parsed.returns

DEFAULT_MAX_ARTICLES == 1

\* MAX_ARTICLES_PER_RUN (config.py:78)
MAX_ARTICLES_PER_RUN(setting) == get_int_env(setting, DEFAULT_MAX_ARTICLES)

\* The values MAX_ARTICLES_PER_RUN takes (config.py:78)
Caps == (0 - 1)..MaxLinks

\* str(n)
CapText(n) == IF n < 0 THEN "-" \o IntToStr(0 - n) ELSE IntToStr(n)

\* What the environment can hold for MAX_ARTICLES_PER_RUN: nothing, the text
\* of each value of Caps, a padded number, and a text int() cannot parse.
EnvSettings ==
    {[null |-> TRUE]}
    \cup {[str |-> CapText(c)] : c \in Caps}
    \cup {[str |-> " 2 "], [str |-> "many"]}

RunInit ==
    /\ pc = "idle"
    /\ run_no = 0
    /\ env_max_articles = [null |-> TRUE]
    /\ all_links = <<>>
    /\ links_to_process = <<>>
    /\ loop_idx = 0
    /\ attempted = <<>>
    /\ processed_count = 0
    /\ raw_dir = [id \in RunIds |-> <<>>]
    /\ processed_dir = [id \in RunIds |-> <<>>]
    /\ gap_analysis = <<>>
    /\ SheetIdle
    /\ UpsertIdle
    /\ CanonIdle
    /\ PrioIdle
    /\ AggIdle
    /\ StructIdle
    /\ EngineIdle
    /\ ClientIdle

\* main() up to the loop (main.py:41-71), in a process whose environment
\* holds `setting`: n links are discovered, all_links[:MAX_ARTICLES_PER_RUN]
\* of them are scheduled
StartRun(n, setting) ==
    /\ pc \in {"idle", "exited", "done", "aggregation_failed", "killed"}
    /\ run_no < MaxRuns
    /\ run_no' = run_no + 1
    /\ env_max_articles' = setting
    /\ LET sm == SheetManager__init__(article_sheet, gap_sheet)
           links == [i \in 1..n |-> ArticleUrl(i)]
           scheduled == IF n = 0 THEN <<>>
                        ELSE SliceTo(links, MAX_ARTICLES_PER_RUN(setting))
       IN  /\ article_sheet' = sm.article_sheet
           /\ gap_sheet' = sm.gap_sheet
           /\ article_row_cache' = sm.article_row_cache
           /\ url_row_cache' = sm.url_row_cache
           /\ all_links' = links
           /\ links_to_process' = scheduled
           /\ pc' = IF n = 0 THEN "exited"
                    ELSE IF Len(scheduled) = 0 THEN "aggregate" ELSE "scrape"
           /\ loop_idx' = IF Len(scheduled) = 0 THEN 0 ELSE 1
           /\ attempted' = IF Len(scheduled) = 0 THEN <<>> ELSE <<1>>
    /\ processed_count' = 0
    /\ gap_analysis' = <<>>
    /\ raw_article' = <<>>
    /\ structured' = <<>>
    /\ UNCHANGED <<engine_vars, client_vars, raw_dir, processed_dir, struct_done, upsert_vars,
                   canon_vars, prio_vars, agg_vars>>

\* The loop moves to the statement `next`: the first statement of the next
\* iteration, or the aggregation after the last one
EndIteration(next) ==
    /\ pc' = next
    /\ loop_idx' = IF next = "scrape" THEN loop_idx + 1 ELSE loop_idx
    /\ attempted' = IF next = "scrape" THEN Append(attempted, loop_idx + 1)
                    ELSE attempted

\* raw_article = scraper.scrape_article(url, article_id) (main.py:86)
Scrape(page) ==
    /\ pc = "scrape"
    /\ raw_article' =
          scrape_article(links_to_process[loop_idx], ArticleId(loop_idx), page)
    /\ pc' = "open_raw"
    /\ UNCHANGED <<engine_vars, client_vars, structured, struct_done, run_no, env_max_articles, all_links, links_to_process,
                   loop_idx, attempted, processed_count, raw_dir, processed_dir,
                   gap_analysis, sheet_vars, upsert_vars, canon_vars, prio_vars,
                   agg_vars>>

\* save_json (main.py:29-35): open(path, "w") creates or truncates the file
SaveJsonOpen ==
    /\ pc \in {"open_raw", "open_processed"}
    /\ IF pc = "open_raw"
       THEN /\ raw_dir' = [raw_dir EXCEPT ![ArticleId(loop_idx)] = PartialFile]
            /\ pc' = "dump_raw"
            /\ UNCHANGED processed_dir
       ELSE /\ processed_dir' =
                  [processed_dir EXCEPT ![ArticleId(loop_idx)] = PartialFile]
            /\ pc' = "dump_processed"
            /\ UNCHANGED raw_dir
    /\ UNCHANGED <<engine_vars, client_vars, struct_vars, run_no, env_max_articles, all_links, links_to_process, loop_idx,
                   attempted, processed_count, gap_analysis, sheet_vars,
                   upsert_vars, canon_vars, prio_vars, agg_vars>>

\* save_json (main.py:29-35): json.dump writes the document and the file is
\* closed
SaveJsonDump ==
    /\ pc \in {"dump_raw", "dump_processed"}
    /\ IF pc = "dump_raw"
       THEN /\ raw_dir' = [raw_dir EXCEPT ![ArticleId(loop_idx)] = raw_article]
            /\ pc' = "structure"
            /\ UNCHANGED processed_dir
       ELSE /\ processed_dir' =
                  [processed_dir EXCEPT ![ArticleId(loop_idx)] = structured]
            /\ pc' = "sync"
            /\ UNCHANGED raw_dir
    /\ UNCHANGED <<engine_vars, client_vars, struct_vars, run_no, env_max_articles, all_links, links_to_process, loop_idx,
                   attempted, processed_count, gap_analysis, sheet_vars,
                   upsert_vars, canon_vars, prio_vars, agg_vars>>

\* structured_article = structurer.structure_article(raw_article)
\* (main.py:93)
Structure ==
    /\ pc = "structure"
    /\ \E primary \in HFTopicResults(SliceTo(raw_article.raw_text, TEXT_LIMIT)) :
          structured' = structure_article(raw_article, primary)
    /\ pc' = "open_processed"
    /\ UNCHANGED <<engine_vars, client_vars, raw_article, struct_done, run_no, env_max_articles, all_links, links_to_process,
                   loop_idx, attempted, processed_count, raw_dir, processed_dir,
                   gap_analysis, sheet_vars, upsert_vars, canon_vars, prio_vars,
                   agg_vars>>

\* sheet_manager.upsert(structured_article); processed_count += 1
\* (main.py:100-106)
Sync ==
    /\ pc = "sync"
    /\ LET sm == upsert(TheSheetManager, structured) IN
       /\ article_sheet' = sm.article_sheet
       /\ article_row_cache' = sm.article_row_cache
       /\ url_row_cache' = sm.url_row_cache
    /\ processed_count' = processed_count + 1
    /\ EndIteration(IF loop_idx < Len(links_to_process) THEN "scrape"
                    ELSE "aggregate")
    /\ UNCHANGED <<engine_vars, client_vars, gap_sheet, struct_vars, run_no, env_max_articles, all_links, links_to_process,
                   raw_dir, processed_dir, gap_analysis, upsert_vars, canon_vars,
                   prio_vars, agg_vars>>

\* A statement of the iteration raises (the fetch or the parse, the file
\* write, the structuring, the Sheets call): control goes to the except
\* clause (main.py:108-110).  A file being written stays as far as it got.
ArticleFails ==
    /\ pc \in ArticlePcs
    /\ EndIteration(on_article_exception(loop_idx, Len(links_to_process)))
    /\ UNCHANGED <<engine_vars, client_vars, struct_vars, run_no, env_max_articles, all_links, links_to_process,
                   processed_count, raw_dir, processed_dir, gap_analysis,
                   sheet_vars, upsert_vars, canon_vars, prio_vars, agg_vars>>

\* STEP 6 (main.py:119-132): detect_gaps over the documents load_articles can
\* read, in any glob order; a non-empty report is written to the gap sheet
Aggregate ==
    /\ pc = "aggregate"
    /\ \E order \in Orders({id \in RunIds : IsDocument(processed_dir[id])}) :
          LET articles == [i \in 1..Len(order) |-> json_load(processed_dir[order[i]])]
              rows == detect_gaps(articles, DEFAULT_TOP_N)
          IN  /\ gap_analysis' = rows
              /\ gap_sheet' = IF Len(rows) > 0
                              THEN upsert_gap_analysis(gap_sheet, rows)
                              ELSE gap_sheet
    /\ pc' = "done"
    /\ UNCHANGED <<engine_vars, client_vars, article_sheet, article_row_cache, url_row_cache, struct_vars,
                   run_no, env_max_articles, all_links, links_to_process, loop_idx, attempted,
                   processed_count, raw_dir, processed_dir, upsert_vars,
                   canon_vars, prio_vars, agg_vars>>

\* STEP 6 raises (main.py:130-132): a Sheets call of upsert_gap_analysis
\* fails, before any row was touched or after delete_rows removed the old
\* rows
AggregateFails ==
    /\ pc = "aggregate"
    /\ \/ UNCHANGED gap_sheet
       \/ Len(gap_sheet) > 1 /\ gap_sheet' = SubSeq(gap_sheet, 1, 1)
    /\ pc' = "aggregation_failed"
    /\ UNCHANGED <<engine_vars, client_vars, article_sheet, article_row_cache, url_row_cache, struct_vars,
                   run_no, env_max_articles, all_links, links_to_process, loop_idx, attempted,
                   processed_count, raw_dir, processed_dir, gap_analysis,
                   upsert_vars, canon_vars, prio_vars, agg_vars>>

\* The process is stopped from outside (a signal, a power cut) while the
\* loop is running
Interrupt ==
    /\ pc \in ArticlePcs
    /\ pc' = "killed"
    /\ UNCHANGED <<engine_vars, client_vars, struct_vars, run_no, env_max_articles, all_links, links_to_process, loop_idx,
                   attempted, processed_count, raw_dir, processed_dir,
                   gap_analysis, sheet_vars, upsert_vars, canon_vars, prio_vars,
                   agg_vars>>

RunSteps ==
    \/ SaveJsonOpen
    \/ SaveJsonDump
    \/ Structure
    \/ Sync
    \/ ArticleFails
    \/ Aggregate
    \/ AggregateFails
    \/ Interrupt

RunNext ==
    \/ \E n \in 0..MaxLinks, setting \in EnvSettings : StartRun(n, setting)
    \/ \E page \in RunPages : Scrape(page)
    \/ RunSteps

SpecRun == RunInit /\ [][RunNext]_vars

FirstRunNext ==
    \/ \E n \in 0..MaxLinks, setting \in EnvSettings : run_no = 0 /\ StartRun(n, setting)
    \/ \E page \in FirstRunPages : Scrape(page)
    \/ RunSteps

SpecFirstRun == RunInit /\ [][FirstRunNext]_vars

(***************************************************************************)
(* The clients and the rationale builders, one call at a time: SpecClients  *)
(* calls each method on every input below and records how the call ended.   *)
(***************************************************************************)
\* What self.gemini._run does in _generate_rationale: it fails, returns a
\* non-string, an empty, a blank, a too short, a shortest and a longest
\* accepted, a too long, a padded and an ordinary text.
RationaleResults ==
    { [raises |-> TRUE], [num |-> 7], [str |-> ""], [str |-> "   "],
      [str |-> Repeat("a", 14)], [str |-> Repeat("a", 15)],
      [str |-> Repeat("a", 160)], [str |-> Repeat("a", 161)],
      [str |-> "  " \o Repeat("a", 160) \o "\n"],
      [str |-> "Users cannot recover from failed syncs on their own."] }

EngineCategories ==
    {"API", "Integrations", "Roles & Permissions", "Troubleshooting", "General"}

DetectorLabels == {D_ACCESS, D_ERRORS, D_LIMITS, D_EXAMPLES, D_GENERAL}

\* Scores and thresholds in hundredths; 15 is the default threshold
ScoreLevels == {10, 15, 20, 25, 90}

Thresholds == {15, 25}

RECURSIVE RankedScores(_)
\* The non-increasing score lists of length n
RankedScores(n) ==
    IF n = 0 THEN {<<>>}
    ELSE UNION { { Append(r, [num |-> v]) :
                     v \in {w \in ScoreLevels : Len(r) = 0 \/ w <= r[Len(r)].num} } :
                 r \in RankedScores(n - 1) }

\* The classifier's ranked answers for the candidate labels `allowed`: the
\* labels in some order with non-increasing scores
RankedResponses(allowed) ==
    { [labels |-> ls, scores |-> sc] :
        ls \in Orders({allowed[i] : i \in 1..Len(allowed)}),
        sc \in RankedScores(Len(allowed)) }

\* The answers that are no ranked classification: an error page, an empty
\* list, an error object, a non-numeric score, a list of a non-object
MalformedTopicServices(allowed) ==
    { [text |-> "Service Unavailable"],
      [list |-> <<>>],
      [list |-> <<[text |-> "Service Unavailable"]>>],
      [dict |-> [error |-> "Model is loading"]],
      [dict |-> [labels |-> allowed,
                 scores |-> [i \in 1..Len(allowed) |-> [str |-> "high"]]]] }

TopicServices(allowed) ==
    {[raises |-> TRUE]}
    \cup MalformedTopicServices(allowed)
    \cup { [dict |-> r] : r \in RankedResponses(allowed) }
    \cup { [list |-> <<[dict |-> r]>>] : r \in RankedResponses(allowed) }

Questions ==
    << "Does this article explain error handling?",
       "Does this article list prerequisites?" >>

\* What the question-answering service does with one request
AnswerServices ==
    { [raises |-> TRUE],
      [text |-> "Service Unavailable"],
      [dict |-> [answer |-> "see below"]],
      [dict |-> [score |-> [num |-> 10], answer |-> "no"]],
      [dict |-> [score |-> [num |-> 90], answer |-> "retry the sync"]],
      [dict |-> [score |-> [str |-> "high"], answer |-> "retry the sync"]] }

ClientTexts == {"", "Create an api token."}

\* Article texts handed to GeminiClient.analyze_article: none, one without
\* and one with a keyword of each group of _semantic_gap_fallback
ReviewedTexts ==
    {"", "Create an api token.", "Only a manager role can see the error example."}

\* Texts handed to _infer_semantic_gaps: up to MaxTextWords words, among
\* them keywords of each of its four checks, and one text with all of them
GateVocab ==
    { "Role ", "access ", "error ", "troubleshoot ", "limit ", "cannot ",
      "example ", "use case ", "intro " }

GateTexts ==
    Phrases(GateVocab, MaxTextWords)
    \cup {"Only a manager role can see the error example."}

\* The values _infer_category_heuristic and _infer_content_type_heuristic
\* return
StructurerCategories ==
    { "API", "Integrations", "Roles & Permissions", "Projects & Phases",
      "Troubleshooting", "Account & Management", "General" }

StructurerContentTypes == {"How-to", "FAQ", "Troubleshooting", "Reference", "Guide"}

\* What the Gemini service does with a request: it fails, answers without
\* text, or answers one of the response texts
GeminiServices ==
    {[raises |-> TRUE], [text |-> "None"]}
    \cup {[text |-> t] : t \in DOMAIN ResponseParse}

ClientsInit ==
    /\ ClientIdle
    /\ CanonIdle
    /\ PrioIdle
    /\ AggIdle
    /\ StructIdle
    /\ SheetIdle
    /\ UpsertIdle
    /\ RunIdle
    /\ EngineIdle

\* GapDetector._build_rationale(gap_desc, category, freq, total)
BuildRationale ==
    /\ client_call = <<>>
    /\ \E gap_desc \in DetectorLabels, category \in EngineCategories,
          total \in 2..MaxArticles :
          \E freq \in 2..total :
             /\ client_call' = [method |-> "_build_rationale",
                                args |-> <<gap_desc, category, freq, total>>]
             /\ client_result' =
                   [returns |-> D_build_rationale(gap_desc, category, freq, total)]
    /\ UNCHANGED <<canon_vars, prio_vars, agg_vars, struct_vars, sheet_vars,
                   upsert_vars, run_vars, engine_vars>>

\* GapAnalysisEngine._generate_rationale(category, gap, priority)
GenerateRationale ==
    /\ client_call = <<>>
    /\ \E category \in EngineCategories, gap_desc \in {S_ERRORS},
          priority \in {"High", "Low"}, result \in RationaleResults :
          /\ client_call' = [method |-> "_generate_rationale",
                             args |-> <<category, gap_desc, priority, result>>]
          /\ client_result' =
                [returns |-> E_generate_rationale(category, gap_desc, priority, result)]
    /\ UNCHANGED <<canon_vars, prio_vars, agg_vars, struct_vars, sheet_vars,
                   upsert_vars, run_vars, engine_vars>>

\* HFClient.detect_topics(text, allowed_topics, threshold, max_topics)
DetectTopics ==
    /\ client_call = <<>>
    /\ \E text \in ClientTexts, n \in 0..MaxLabels, threshold \in Thresholds,
          max_topics \in 1..MaxTopics :
          LET allowed_topics == SubSeq(TOPICS, 1, n) IN
          \E service \in TopicServices(allowed_topics) :
             /\ client_call' =
                   [method |-> "detect_topics",
                    args |-> <<text, allowed_topics, threshold, max_topics, service>>]
             /\ client_result' =
                   HF_detect_topics(text, allowed_topics, threshold, max_topics, service)
    /\ UNCHANGED <<canon_vars, prio_vars, agg_vars, struct_vars, sheet_vars,
                   upsert_vars, run_vars, engine_vars>>

\* HFClient.detect_gaps(text, questions, score_threshold, max_gaps); 0.25 is
\* the default score_threshold
HFDetectGaps ==
    /\ client_call = <<>>
    /\ \E text \in ClientTexts, n \in 0..Len(Questions), max_gaps \in 1..MaxTopics,
          first \in AnswerServices, second \in AnswerServices :
          LET questions == SubSeq(Questions, 1, n)
              services == <<first, second>>
          IN  /\ client_call' =
                    [method |-> "detect_gaps",
                     args |-> <<text, questions, 25, max_gaps, services>>]
              /\ client_result' = HF_detect_gaps(text, questions, 25, max_gaps, services)
    /\ UNCHANGED <<canon_vars, prio_vars, agg_vars, struct_vars, sheet_vars,
                   upsert_vars, run_vars, engine_vars>>

\* GeminiClient.analyze_article(article_text)
AnalyzeArticle ==
    /\ client_call = <<>>
    /\ \E article_text \in ReviewedTexts, service \in GeminiServices :
          /\ client_call' = [method |-> "analyze_article",
                             args |-> <<article_text, service>>]
          /\ client_result' = G_analyze_article(article_text, service)
    /\ UNCHANGED <<canon_vars, prio_vars, agg_vars, struct_vars, sheet_vars,
                   upsert_vars, run_vars, engine_vars>>

\* ArticleJSONStructurer._infer_semantic_gaps(text, category, content_type)
InferSemanticGaps ==
    /\ client_call = <<>>
    /\ \E text \in GateTexts, category \in StructurerCategories,
          content_type \in StructurerContentTypes :
          /\ client_call' = [method |-> "_infer_semantic_gaps",
                             args |-> <<text, category, content_type>>]
          /\ client_result' =
                [returns |-> S_infer_semantic_gaps(text, category, content_type)]
    /\ UNCHANGED <<canon_vars, prio_vars, agg_vars, struct_vars, sheet_vars,
                   upsert_vars, run_vars, engine_vars>>

\* The caller takes the result; the client keeps nothing between calls
ClientReturn ==
    /\ client_call # <<>>
    /\ client_call' = <<>>
    /\ client_result' = <<>>
    /\ UNCHANGED <<canon_vars, prio_vars, agg_vars, struct_vars, sheet_vars,
                   upsert_vars, run_vars, engine_vars>>

ClientsNext ==
    \/ BuildRationale
    \/ GenerateRationale
    \/ DetectTopics
    \/ HFDetectGaps
    \/ AnalyzeArticle
    \/ InferSemanticGaps
    \/ ClientReturn

SpecClients == ClientsInit /\ [][ClientsNext]_vars

(***************************************************************************)
(* GapAnalysisEngine on a growing processed directory: the environment     *)
(* sets GEMINI_API_KEY or not, the engine is constructed, and run() is      *)
(* called with the Gemini service failing, answering nothing, or answering  *)
(* a text.                                                                  *)
(***************************************************************************)
\* GEMINI_API_KEY unset, set to the empty string, or set
GeminiKeys == {"None", "", "AIza-key"}

\* What the Gemini service does with the requests of a run: call error or
\* quota exhausted, no text, a usable sentence, a text that is too long
RunServices ==
    { [raises |-> TRUE], [text |-> "None"],
      [text |-> "Users cannot recover from failed syncs on their own."],
      [text |-> Repeat("Users are blocked. ", 9)] }

EngineInit ==
    /\ gemini_api_key \in GeminiKeys
    /\ engine = "not constructed"
    /\ gemini_service = <<>>
    /\ gap_rows = <<>>
    /\ processed = EmptyCorpus
    /\ top_n = DEFAULT_TOP_N
    /\ report = <<>>
    /\ prev_report = <<>>
    /\ runs = 0
    /\ LET sm == SheetManager__init__(<<>>, <<>>) IN
       /\ article_sheet = sm.article_sheet
       /\ gap_sheet = sm.gap_sheet
       /\ article_row_cache = sm.article_row_cache
       /\ url_row_cache = sm.url_row_cache
    /\ CanonIdle
    /\ PrioIdle
    /\ StructIdle
    /\ UpsertIdle
    /\ RunIdle
    /\ ClientIdle

\* engine = GapAnalysisEngine(processed_dir, sheet_manager)
ConstructEngine ==
    /\ engine = "not constructed"
    /\ engine' = GapAnalysisEngine__init__(gemini_api_key)
    /\ UNCHANGED <<gemini_api_key, gemini_service, gap_rows, canon_vars, prio_vars,
                   agg_vars, struct_vars, sheet_vars, upsert_vars, run_vars,
                   client_vars>>

\* engine.run(): def run(self, top_n: int = 5)
EngineRun(service) ==
    /\ engine = "constructed"
    /\ \E articles \in Enumerations(processed) :
          LET rows == E_run(articles, top_n, service) IN
          /\ gap_rows' = rows
          /\ gap_sheet' = upsert_gap_analysis(gap_sheet, rows)
    /\ gemini_service' = service
    /\ UNCHANGED <<gemini_api_key, engine, canon_vars, prio_vars, agg_vars,
                   struct_vars, article_sheet, article_row_cache, url_row_cache,
                   upsert_vars, run_vars, client_vars>>

EngineNext ==
    \/ \E d \in CorpusIds \cup RepeatIds : SaveProcessed(d)
    \/ ConstructEngine
    \/ \E service \in RunServices : EngineRun(service)

SpecEngine == EngineInit /\ [][EngineNext]_vars

(***************************************************************************)
(* Properties of the canonicalizers (checked under SpecCanon).             *)
(***************************************************************************)
\* The rule table of the specification: keyword sets in rule order.
RuleKeywords ==
    << {"access", "permission", "role"},
       {"error", "fail", "failure", "troubleshoot"},
       {"limit", "constraint", "restriction", "boundary"},
       {"example", "workflow", "use case"} >>

StructurerRuleLabel == <<S_ROLES, S_ERRORS, S_LIMITS, S_EXAMPLES>>

DetectorRuleLabel == <<D_ACCESS, D_ERRORS, D_LIMITS, D_EXAMPLES>>

MatchedRules(raw) ==
    {r \in 1..Len(RuleKeywords) : ContainsAny(RuleKeywords[r], Strip(Lower(raw)))}

FirstRule(raw) == CHOOSE r \in MatchedRules(raw) : \A q \in MatchedRules(raw) : r <= q

\* C4: a raw gap that contains keywords of two different rules is given, by
\* both canonicalizers, the label of the rule that comes first in the order
\* role/access, error-handling, limitations, examples.
C4_RuleOrderRespected ==
    (canon_done = {"structurer", "detector"} /\ Cardinality(MatchedRules(gap)) >= 2)
        => /\ structurer_label = StructurerRuleLabel[FirstRule(gap)]
           /\ detector_label = DetectorRuleLabel[FirstRule(gap)]

\* C5: GapDetector._canonicalize_gap returns, for every raw gap, the label of
\* the first rule of the table with a keyword in the lower-cased, trimmed
\* string, and the catch-all label when no rule matches.
C5_DetectorEqualsRuleTable ==
    "detector" \in canon_done
        => detector_label =
              IF MatchedRules(gap) = {} THEN D_GENERAL
              ELSE DetectorRuleLabel[FirstRule(gap)]

(***************************************************************************)
(* Properties of the priority policies (checked under SpecPriority).       *)
(***************************************************************************)
Rank(priority) == CASE priority = "Low" -> 1 [] priority = "Medium" -> 2 [] priority = "High" -> 3

\* occurrences / total >= tenths / 10
RatioTenths(tenths) == Len(occurrences) * 10 >= tenths * total_articles

PolicyPriority ==
    IF RatioTenths(4) \/ SeverityCount(occurrences, "High") >= 3 THEN "High"
    ELSE IF RatioTenths(2) \/ SeverityCount(occurrences, "Medium") >= 2 THEN "Medium"
    ELSE "Low"

\* C6: for a corpus of at least one article, GapDetector._calculate_priority
\* is High iff ratio >= 0.4 or >= 3 High-severity occurrences, else Medium iff
\* ratio >= 0.2 or >= 2 Medium-severity occurrences, else Low.
C6_DetectorPriorityPolicy ==
    (detector_priority # "" /\ total_articles >= 1)
        => detector_priority = PolicyPriority

\* High by the severity count alone: 3 High occurrences below the 0.4 ratio.
C6_Witness ==
    /\ detector_priority = "High"
    /\ total_articles >= 1
    /\ ~RatioTenths(4)
    /\ SeverityCount(occurrences, "High") >= 3

\* C7: with the corpus size fixed, one more occurrence never lowers the tier
\* computed by either _calculate_priority.
C7_PriorityMonotone ==
    /\ (prev_priority.detector # "" /\ detector_priority # "")
          => Rank(detector_priority) >= Rank(prev_priority.detector)
    /\ (prev_priority.engine # "" /\ engine_priority # "")
          => Rank(engine_priority) >= Rank(prev_priority.engine)

\* An occurrence was added and both tiers were recomputed; the detector's rose.
C7_Witness ==
    /\ prev_priority.detector = "Medium"
    /\ detector_priority = "High"
    /\ prev_priority.engine # ""
    /\ engine_priority # ""

\* C8: GapDetector._calculate_priority and GapAnalysisEngine._calculate_priority
\* return the same tier for every occurrence list and corpus size.
C8_OnePriorityPolicy ==
    (detector_priority # "" /\ engine_priority # "")
        => detector_priority = engine_priority

(***************************************************************************)
(* Properties of the aggregation (checked under Spec).                     *)
(***************************************************************************)
\* Document d carries a string gap whose canonical label is label.
DocHasLabel(d, label) ==
    LET gaps == Get(DocPool[d], "gaps_identified", <<>>) IN
    \E i \in 1..Len(gaps) : IsStr(gaps[i]) /\ D_canonicalize_gap(gaps[i].str) = label

RECURSIVE ArticlesWithUpTo(_, _)
ArticlesWithUpTo(label, d) ==
    IF d = 0 THEN 0
    ELSE (IF DocHasLabel(d, label) THEN processed[d] ELSE 0) + ArticlesWithUpTo(label, d - 1)

\* The number of articles of the corpus that contribute to the label's bucket.
ArticlesWith(label) == ArticlesWithUpTo(label, Len(DocPool))

\* The number of canonical gaps present in the corpus.
NumBuckets == Cardinality({l \in DetectorLabels : ArticlesWith(l) >= 1})

NumArticles == CorpusSize(processed, Len(DocPool))

\* C1: every row of the report is a canonical gap contributed by at least 2
\* distinct articles; a gap of exactly one article is never reported.
C1_SingletonsExcluded ==
    runs >= 1
        => \A i \in 1..Len(report) : ArticlesWith(report[i].gap_description) >= 2

\* C2 as stated: the report has at most top_n rows for every integer top_n,
\* and is empty when the corpus is empty.
C2_AtMostTopN ==
    runs >= 1
        => /\ Len(report) <= top_n
           /\ (NumArticles = 0 => report = <<>>)

\* C2 as amended: at most top_n rows for top_n >= 0; for a negative top_n the
\* slice drops the last -top_n ranked buckets, leaving max(0, buckets + top_n)
\* rows; the report is empty when the corpus is empty.
C2_BoundedReport ==
    runs >= 1
        => /\ (top_n >= 0 => Len(report) <= top_n)
           /\ (top_n < 0 => Len(report) = Max(0, NumBuckets + top_n))
           /\ (NumArticles = 0 => report = <<>>)

\* The cap bites: more canonical gaps than top_n, and exactly top_n rows.
C2_Witness ==
    /\ runs >= 1
    /\ top_n >= 1
    /\ NumBuckets > top_n
    /\ Len(report) = top_n

\* The corpus of the end-to-end scenario: 3 articles with the raw gap
\* "missing permission explanation", 2 with "no error troubleshooting".
ScenarioCorpus ==
    /\ CountOver(processed, PermissionIds) = 3
    /\ CountOver(processed, ErrorIds) = 2
    /\ CountOver(processed, DocIds) = 5

\* C3 (checked under SpecScenario): on the scenario corpus detect_gaps(top_n=5)
\* returns exactly 2 rows, the role/access row first and the error-handling
\* row second, both High.
C3_EndToEndScenario ==
    (ScenarioCorpus /\ top_n = 5 /\ runs >= 1)
        => /\ Len(report) = 2
           /\ report[1].gap_description = D_ACCESS
           /\ report[2].gap_description = D_ERRORS
           /\ report[1].priority = "High"
           /\ report[2].priority = "High"

\* The scenario ran with no High-severity article in it: both rows are High
\* by the ratios 3/5 and 2/5 alone.
C3_Witness ==
    /\ ScenarioCorpus
    /\ top_n = 5
    /\ runs >= 1
    /\ Len(report) = 2
    /\ \A d \in DocIds : processed[d] > 0 => DocPool[d].gap_severity = "Low"

\* C9: two detect_gaps runs over an unchanged corpus return identical rows,
\* whatever order the documents are enumerated in.
C9_Idempotent == runs = 2 => report = prev_report

(***************************************************************************)
(* Properties of the structurer (checked under SpecStructure).             *)
(***************************************************************************)
\* C10: in every record structure_article returns, gap_severity is Low iff
\* gaps_identified is empty, Medium iff it holds exactly one gap, High iff it
\* holds two or more.
C10_SeverityFromGapCount ==
    struct_done
        => LET n == Len(structured.gaps_identified) IN
           /\ (structured.gap_severity = "Low") <=> (n = 0)
           /\ (structured.gap_severity = "Medium") <=> (n = 1)
           /\ (structured.gap_severity = "High") <=> (n >= 2)

\* A record with exactly two gaps, at the High boundary.
C10_Witness ==
    /\ struct_done
    /\ Len(structured.gaps_identified) = 2
    /\ structured.gap_severity = "High"

C14_NoForeignRowOverwritten ==
    last_data # <<>> =>
        LET changed == {r \in 1..Len(prev_article_sheet) :
                          article_sheet[r] # prev_article_sheet[r]}
        IN  /\ Len(article_sheet) >= Len(prev_article_sheet)
            /\ Len(article_sheet) <= Len(prev_article_sheet) + 1
            /\ Cardinality(changed)
                 + (Len(article_sheet) - Len(prev_article_sheet)) <= 1
            /\ \A r \in changed :
                  \/ prev_article_sheet[r][1] = last_data.article_id
                  \/ prev_article_sheet[r][5] = last_data.url


(***************************************************************************)
(* Properties of the orchestrator (checked under SpecFirstRun and SpecRun). *)
(***************************************************************************)
\* C12 (checked under SpecRun): once the aggregation of a run has completed,
\* the Gap Analysis sheet holds the header row followed by exactly the rows
\* of that run's report and nothing of an earlier run, also when the report
\* of the run is empty.
C12_ReplaceOnWrite ==
    pc = "done" =>
        gap_sheet = <<GAP_HEADERS>>
                      \o [i \in 1..Len(gap_analysis) |-> GapRow(gap_analysis[i])]

\* C15: the iterations a run has entered are those of articles 1, 2, ... in
\* list order, each once; a run that has left the article loop without being
\* stopped from outside has entered the iteration of every scheduled article,
\* whatever failed in the iterations before.
C15_FaultIsolation ==
    /\ \A i \in 1..Len(attempted) : attempted[i] = i
    /\ Len(attempted) <= Len(links_to_process)
    /\ pc \in ArticlePcs => attempted[Len(attempted)] = loop_idx
    /\ pc \notin ArticlePcs \cup {"idle", "exited", "killed"}
       => Len(attempted) = Len(links_to_process)

C15_Witness ==
    /\ pc = "done"
    /\ Len(links_to_process) = MaxLinks
    /\ Len(attempted) = MaxLinks
    /\ processed_count = MaxLinks - 1
    /\ ~IsDocument(processed_dir[ArticleId(1)])
    /\ IsDocument(processed_dir[ArticleId(MaxLinks)])

\* C16: whenever no write of a processed document is in progress (also after
\* a failed write and after the run was stopped), every file in
\* data/processed is a complete structured record.
C16_NoPartialDocument ==
    pc # "dump_processed" =>
        \A id \in RunIds :
            processed_dir[id] = <<>> \/ IsDocument(processed_dir[id])

(***************************************************************************)
(* Properties of the rationale builders and of HFClient (checked under     *)
(* SpecClients).                                                           *)
(***************************************************************************)
\* C11: the rationale GapDetector._build_rationale returns for a canonical
\* label, and the one GapAnalysisEngine._generate_rationale returns whatever
\* the Gemini call did (valid, empty, blank, too short, too long, non-string,
\* failed), is non-empty and at most 160 characters long.
C11_RationaleBounded ==
    (/\ client_call # <<>>
     /\ client_call.method \in {"_build_rationale", "_generate_rationale"})
    => /\ "returns" \in DOMAIN client_result
       /\ Len(client_result.returns) >= 1
       /\ Len(client_result.returns) <= 160

\* _generate_rationale was handed a text of more than 160 characters and
\* answered with the baseline sentence of the category.
C11_Witness ==
    /\ client_call # <<>>
    /\ client_call.method = "_generate_rationale"
    /\ IsStr(client_call.args[4])
    /\ Len(Strip(client_call.args[4].str)) > 160
    /\ client_result.returns =
          E_baseline_rationale(client_call.args[1], client_call.args[2])

\* C17: no call of HFClient.detect_topics or HFClient.detect_gaps raises,
\* whatever the inference service did (timeout, error, malformed answer).
C17_NeverRaises ==
    (/\ client_call # <<>>
     /\ client_call.method \in {"detect_topics", "detect_gaps"})
    => "returns" \in DOMAIN client_result

\* The object a classifier answer carries: the answer itself or the first
\* element of a one-element list; <<>> when there is none.
RankedAnswer(service) ==
    IF "dict" \in DOMAIN service THEN service.dict
    ELSE IF /\ "list" \in DOMAIN service
            /\ Len(service.list) > 0
            /\ "dict" \in DOMAIN service.list[1]
    THEN service.list[1].dict
    ELSE <<>>

\* A ranked classification with at least one label: as many numeric scores
\* as labels, non-increasing.
IsRanked(r) ==
    /\ "labels" \in DOMAIN r
    /\ "scores" \in DOMAIN r
    /\ Len(r.labels) >= 1
    /\ Len(r.labels) = Len(r.scores)
    /\ \A i \in 1..Len(r.scores) : "num" \in DOMAIN r.scores[i]
    /\ \A i, j \in 1..Len(r.scores) : i < j => r.scores[i].num >= r.scores[j].num

\* C20: for a non-empty text, a non-empty label set and a ranked answer,
\* detect_topics (max_topics >= 1) returns the labels that clear the
\* threshold, in ranked order, cut to max_topics; when none clears it, exactly
\* the highest-scoring label; never an empty list.
C20_ThresholdCapFallback ==
    (/\ client_call # <<>>
     /\ client_call.method = "detect_topics"
     /\ client_call.args[1] # ""
     /\ Len(client_call.args[2]) > 0
     /\ IsRanked(RankedAnswer(client_call.args[5])))
    => LET r == RankedAnswer(client_call.args[5])
           threshold == client_call.args[3]
           max_topics == client_call.args[4]
           clearing == {i \in 1..Len(r.labels) : r.scores[i].num >= threshold}
           topics == client_result.returns
       IN  /\ "returns" \in DOMAIN client_result
           /\ Len(topics) >= 1
           /\ clearing # {} =>
                 /\ Len(topics) = Min(max_topics, Cardinality(clearing))
                 /\ \A k \in 1..Len(topics) : k \in clearing /\ topics[k] = r.labels[k]
           /\ clearing = {} => topics = <<r.labels[1]>>

\* A ranked answer of several labels none of which clears the threshold, and
\* detect_topics returned the first label alone.
C20_Witness ==
    /\ client_call # <<>>
    /\ client_call.method = "detect_topics"
    /\ client_call.args[1] # ""
    /\ IsRanked(RankedAnswer(client_call.args[5]))
    /\ Len(RankedAnswer(client_call.args[5]).labels) >= 2
    /\ \A i \in 1..Len(RankedAnswer(client_call.args[5]).scores) :
          RankedAnswer(client_call.args[5]).scores[i].num < client_call.args[3]
    /\ client_result = [returns |-> <<RankedAnswer(client_call.args[5]).labels[1]>>]

\* C19: the record GeminiClient.analyze_article returns has between 1 and 3
\* gaps, for every article text and every response of the model (valid JSON,
\* malformed, empty, failed call).
C19_NeverEmptyGaps ==
    (/\ client_call # <<>>
     /\ client_call.method = "analyze_article")
    => /\ "returns" \in DOMAIN client_result
       /\ Len(client_result.returns.gaps_identified) >= 1
       /\ Len(client_result.returns.gaps_identified) <= 3

(***************************************************************************)
(* Properties of GapAnalysisEngine (checked under SpecEngine).             *)
(***************************************************************************)
\* C18: whether or not GEMINI_API_KEY is set, constructing GapAnalysisEngine
\* does not fail; and a run during which the Gemini service failed or gave
\* no text writes rows that carry the baseline rationale of their category.
C18_GeminiOptional ==
    /\ engine # "ValueError"
    /\ (gemini_service # <<>> /\ G_run(gemini_service) = "")
       => \A k \in 1..Len(gap_rows) :
             gap_rows[k].rationale =
                E_baseline_rationale(gap_rows[k].category, gap_rows[k].gap_description)

(***************************************************************************)
(* Properties of the structurer's gap rules (checked under SpecClients).   *)
(***************************************************************************)
\* The four checks in their order: the phrase, the categories or content
\* types that open its gate, and the keywords that satisfy it.
GapChecks ==
    << [ phrase |-> RAW_ROLES, on |-> "category",
         gate |-> {"Roles & Permissions", "Integrations", "API"},
         keywords |-> {"role", "permission", "access"} ],
       [ phrase |-> RAW_ERRORS, on |-> "category",
         gate |-> {"Integrations", "API", "Troubleshooting"},
         keywords |-> {"error", "fail", "issue", "troubleshoot"} ],
       [ phrase |-> RAW_LIMITS, on |-> "category",
         gate |-> {"API", "Integrations"},
         keywords |-> {"limit", "only", "cannot", "restriction"} ],
       [ phrase |-> RAW_EXAMPLES, on |-> "content_type",
         gate |-> {"How-to", "Guide"},
         keywords |-> {"example", "workflow", "use case"} ] >>

\* Check c fails for the call: its gate holds and no keyword of it occurs in
\* the lower-cased text.
CheckFails(c, text, category, content_type) ==
    /\ (IF GapChecks[c].on = "category" THEN category ELSE content_type)
          \in GapChecks[c].gate
    /\ \A k \in GapChecks[c].keywords : ~Contains(k, Lower(text))

\* C21: _infer_semantic_gaps returns at most 3 phrases; they are the phrases
\* of the failing checks, in the order of the checks, each at most once; a
\* failing check is left out only when three failing checks precede it.
C21_GatedAndCapped ==
    (/\ client_call # <<>>
     /\ client_call.method = "_infer_semantic_gaps")
    => LET text == client_call.args[1]
           category == client_call.args[2]
           content_type == client_call.args[3]
           failing == {c \in 1..Len(GapChecks) :
                         CheckFails(c, text, category, content_type)}
           gaps == client_result.returns
           \* the check whose phrase stands at position i
           check(i) == CHOOSE c \in 1..Len(GapChecks) : GapChecks[c].phrase = gaps[i]
       IN  /\ Len(gaps) <= 3
           /\ Len(gaps) = Min(3, Cardinality(failing))
           /\ \A i \in 1..Len(gaps) :
                 /\ \E c \in failing : GapChecks[c].phrase = gaps[i]
                 /\ Cardinality({c \in failing : c < check(i)}) = i - 1

\* All four checks fail and the first three phrases are returned.
C21_Witness ==
    /\ client_call # <<>>
    /\ client_call.method = "_infer_semantic_gaps"
    /\ \A c \in 1..Len(GapChecks) :
          CheckFails(c, client_call.args[1], client_call.args[2], client_call.args[3])
    /\ client_result.returns = <<RAW_ROLES, RAW_ERRORS, RAW_LIMITS>>

(***************************************************************************)
(* Properties of the report's ranking (checked under Spec).                *)
(***************************************************************************)
\* The position of label's bucket in gap_bucket, in first-seen order.
BucketOf(bucket, label) ==
    CHOOSE p \in 1..Len(bucket) : bucket[p][1] = label

\* Bucket p ranks ahead of bucket q: more occurrences, or as many and seen
\* first.
RankedAhead(bucket, p, q) ==
    \/ Len(bucket[p][2]) > Len(bucket[q][2])
    \/ /\ Len(bucket[p][2]) = Len(bucket[q][2])
       /\ p < q

\* The rows are the head of the ranking of the buckets that the scan of
\* articles builds.
RankedByScan(rows, articles) ==
    LET bucket == ScanArticles(<<>>, articles, 1)
        labels == {rows[i].gap_description : i \in 1..Len(rows)}
    IN  /\ \A i \in 1..Len(rows) :
              \E p \in 1..Len(bucket) : bucket[p][1] = rows[i].gap_description
        /\ \A i, j \in 1..Len(rows) :
              i < j => RankedAhead(bucket, BucketOf(bucket, rows[i].gap_description),
                                   BucketOf(bucket, rows[j].gap_description))
        /\ \A i \in 1..Len(rows) : \A q \in 1..Len(bucket) :
              bucket[q][1] \notin labels
                 => RankedAhead(bucket, BucketOf(bucket, rows[i].gap_description), q)

C23_RunCap ==
    pc # "idle"
    => LET cap == MAX_ARTICLES_PER_RUN(env_max_articles) IN
       /\ ("str" \in DOMAIN env_max_articles
              /\ "raises" \in DOMAIN py_int(env_max_articles.str))
          => cap = DEFAULT_MAX_ARTICLES
       /\ Len(links_to_process) <= Max(cap, 0)
       /\ Len(attempted) <= Max(cap, 0)
       /\ links_to_process = SubSeq(all_links, 1, Len(links_to_process))

\* The processed documents present, in the order of their ids, as json.load
\* yields them.  In a first run the directory started empty: they are the
\* documents written during the run.
WrittenDocuments ==
    LET ids == {i \in 1..MaxLinks : IsDocument(processed_dir[ArticleId(i)])}
        RECURSIVE Ascending(_)
        Ascending(rest) ==
            IF rest = {} THEN <<>>
            ELSE LET i == CHOOSE j \in rest : \A k \in rest : j <= k
                 IN  <<json_load(processed_dir[ArticleId(i)])>> \o Ascending(rest \ {i})
    IN  Ascending(ids)

\* C25: the aggregation of a run starts only when the iteration of every
\* scheduled article has been entered and has ended, and the report it
\* computes has one row for every canonical gap of the processed documents
\* written during the run, with the priority that the occurrences in all of
\* these documents give it.
C25_BatchAfterAllArticles ==
    /\ pc \in {"aggregate", "done", "aggregation_failed"}
       => /\ Len(attempted) = Len(links_to_process)
          /\ \A i \in 1..Len(links_to_process) : attempted[i] = i
    /\ pc = "done"
       => LET bucket == ScanArticles(<<>>, WrittenDocuments, 1) IN
          /\ Len(gap_analysis) = Len(bucket)
          /\ \A b \in 1..Len(bucket) :
                \E k \in 1..Len(gap_analysis) :
                   /\ gap_analysis[k].gap_description = bucket[b][1]
                   /\ gap_analysis[k].priority =
                         D_calculate_priority(bucket[b][2], Len(WrittenDocuments))

\* A finished run of MaxLinks articles, the last of which failed after its
\* processed document was written: the report has a row, and a document
\* without gaps is among those written.
C25_Witness ==
    /\ pc = "done"
    /\ Len(attempted) = MaxLinks
    /\ Len(WrittenDocuments) = MaxLinks
    /\ processed_count = MaxLinks - 1
    /\ Len(gap_analysis) >= 1
    /\ \E i \in 1..MaxLinks : Len(WrittenDocuments[i].gaps_identified) = 0

\* Article i has a row in the article sheet.  In a first run the sheet
\* started without data rows: the row was written by the Sync of this run.
SyncedToSheet(i) ==
    \E r \in 2..Len(article_sheet) : article_sheet[r][1] = ArticleId(i)

StructurerToDetector ==
    [i \in 1..Len(StructurerRuleLabel) |-> D_canonicalize_gap(StructurerRuleLabel[i])]

\* C28: the processed documents of a first run were all produced by
\* structure_article.  Scanned by the detector, each of them adds exactly one
\* occurrence to every bucket it adds to, and none to the catch-all bucket;
\* the four structurer labels have four distinct detector labels; so every
\* bucket of the scan of all of them has at most as many occurrences as there
\* are documents (an occurrence ratio of at most 1), and every row of the
\* report has one of the four labels.
C28_OneOccurrencePerArticle ==
    LET docs == WrittenDocuments
        bucket == ScanArticles(<<>>, docs, 1)
        four == {D_ACCESS, D_ERRORS, D_LIMITS, D_EXAMPLES}
    IN  /\ \A d \in 1..Len(docs) :
              LET own == ScanArticles(<<>>, <<docs[d]>>, 1) IN
              /\ Len(own) = Len(docs[d].gaps_identified)
              /\ \A b \in 1..Len(own) : Len(own[b][2]) = 1 /\ own[b][1] \in four
        /\ \A i, j \in 1..Len(StructurerRuleLabel) :
              /\ StructurerToDetector[i] \in four
              /\ i # j => StructurerToDetector[i] # StructurerToDetector[j]
        /\ \A b \in 1..Len(bucket) :
              /\ bucket[b][1] \in four
              /\ Len(bucket[b][2]) <= Len(docs)
        /\ pc = "done"
           => \A k \in 1..Len(gap_analysis) : gap_analysis[k].gap_description \in four

\* A finished run whose documents fill three buckets or more, one of them
\* with an occurrence of every document.
C28_Witness ==
    LET docs == WrittenDocuments
        bucket == ScanArticles(<<>>, docs, 1)
    IN  /\ pc = "done"
        /\ Len(docs) >= 2
        /\ Len(bucket) >= 3
        /\ \E b \in 1..Len(bucket) : Len(bucket[b][2]) = Len(docs)
        /\ Len(gap_analysis) = Len(bucket)

\* The articles whose fetch failed and whose raw and processed documents
\* are both written.
FetchFailedArticles ==
    {i \in 1..MaxLinks :
       /\ IsDocument(raw_dir[ArticleId(i)])
       /\ "fetch_failed" \in DOMAIN raw_dir[ArticleId(i)]
       /\ IsDocument(processed_dir[ArticleId(i)])}

\* C29: a failed fetch makes scrape_article return the "Unavailable Article"
\* placeholder with an empty text; the processed document written for it has
\* category General, content type Guide, topics ["onboarding"], the
\* missing-examples label as its only gap and severity Medium; the detector's
\* scan finds in it one occurrence, of the examples bucket, and the examples
\* bucket of the whole directory has an occurrence of every such article.
C29_FetchFailurePlaceholder ==
    /\ (pc = "open_raw" /\ "fetch_failed" \in DOMAIN raw_article)
       => /\ raw_article.title = "Unavailable Article"
          /\ raw_article.raw_text = ""
          /\ raw_article.article_id = ArticleId(loop_idx)
          /\ raw_article.url = links_to_process[loop_idx]
    /\ \A i \in FetchFailedArticles :
          LET doc == processed_dir[ArticleId(i)] IN
          /\ doc.category = "General"
          /\ doc.content_type = "Guide"
          /\ doc.topics_covered = <<"onboarding">>
          /\ doc.gaps_identified = <<S_EXAMPLES>>
          /\ doc.gap_severity = "Medium"
          /\ ScanArticles(<<>>, <<json_load(doc)>>, 1)
                = << <<D_EXAMPLES, <<[category |-> "General", severity |-> "Medium"]>> >> >>
    /\ FetchFailedArticles # {}
       => LET bucket == ScanArticles(<<>>, WrittenDocuments, 1) IN
          \E b \in 1..Len(bucket) :
             /\ bucket[b][1] = D_EXAMPLES
             /\ Len(bucket[b][2]) >= Cardinality(FetchFailedArticles)

\* A finished run in which the fetch of two articles failed: the report is
\* the one row of the examples bucket.
C29_Witness ==
    /\ pc = "done"
    /\ Cardinality(FetchFailedArticles) = 2
    /\ Len(WrittenDocuments) = 2
    /\ Len(gap_analysis) = 1
    /\ gap_analysis[1].gap_description = D_EXAMPLES

(***************************************************************************)
(* Properties of GapAnalysisEngine.run (checked under SpecEngine).         *)
(***************************************************************************)
\* The documents of the processed directory that list gap g, whatever its
\* case and surrounding blanks, at least once.
ArticlesListing(g) ==
    LET lists(d) ==
            \E i \in 1..Len(Get(DocPool[d], "gaps_identified", <<>>)) :
                LET x == DocPool[d].gaps_identified[i]
                IN  IsStr(x) /\ Lower(Strip(x.str)) = g
    IN  CountOver(processed, {d \in DocIds : lists(d)})

\* C24: every gap GapAnalysisEngine.run hands to the sheet is listed by at
\* least 2 distinct articles of the corpus; a gap that one article lists more
\* than once and no other article lists is not among them.
C24_SystemicMeansTwoArticles ==
    gemini_service # <<>>
    => \A k \in 1..Len(gap_rows) : ArticlesListing(gap_rows[k].gap_description) >= 2

(***************************************************************************)
(* Properties of the row caches (checked under SpecSheet).                 *)
(***************************************************************************)
\* C27: after any sequence of upsert calls, every entry of _article_row_cache
\* names a row of the sheet that holds its Article ID, and every entry of
\* _url_row_cache names a row that holds its URL.
C27_RowCacheConsistent ==
    /\ \A id \in DOMAIN article_row_cache :
          /\ article_row_cache[id] \in 2..Len(article_sheet)
          /\ article_sheet[article_row_cache[id]][1] = id
    /\ \A u \in DOMAIN url_row_cache :
          /\ url_row_cache[u] \in 2..Len(article_sheet)
          /\ article_sheet[url_row_cache[u]][5] = u

====
